---- MODULE Spec2Model ----
(***************************************************************************)
(* Model of the TA-Lib MCP server (talib_mcp_server.py).                   *)
(*                                                                         *)
(* Every tool of the server is a thin entry point: it converts its Python  *)
(* lists to float64 arrays, calls one TA-Lib function and returns the      *)
(* arrays as lists.  The model follows each entry point through the        *)
(* TA-Lib Python binding (input checks, lookback padding with NaN) into    *)
(* the TA-Lib C routine it calls.                                          *)
(*                                                                         *)
(* Numbers.  A float64 is modelled as an exact rational <<n, d>> in lowest *)
(* terms (d > 0); NaN is <<0, 0>>.  Rounding error of the floating-point   *)
(* operations is not modelled.  The square root of a rational that is not  *)
(* a square is kept exact as well: <<p, d, q, k>> is (p + q * sqrt(k)) / d *)
(* with k > 1 square-free, q # 0, d > 0 and gcd(p, q, d) = 1.              *)
(*                                                                         *)
(* Indices.  Python index i of a list is index i+1 of the TLA+ sequence.   *)
(***************************************************************************)
EXTENDS Integers, Sequences, FiniteSets, TLC

VARIABLES pc, op, args, result, logged, calls, heap, used, log, market

vars == <<pc, op, args, result, logged, calls, heap, used, log, market>>

(***************************************************************************)
(* Bounds of the model.                                                    *)
(***************************************************************************)
MaxLen == 4        \* longest single price series
MaxPeriod == 3     \* timeperiod-like parameters are drawn from 0..MaxPeriod
MaxBars == 3       \* longest close/volume input
MaxBars3 == 2      \* longest high/low/close input
MaxSarBars == 4    \* longest high/low input of parabolic_sar
MaxAdxBars == 5    \* longest input of average_directional_index (2 * period bars and one)
MaxTrixLen == 5    \* longest input of trix (3 * (period - 1) + 2 prices)
MaxHistory == 12   \* most candles before the last ones of a recognizer's input
MaxCalls == 2      \* invocations in flight at the same time

(***************************************************************************)
(* Exact rational arithmetic standing for float64 arithmetic.              *)
(***************************************************************************)
NaN == <<0, 0>>

IsNaN(x) == x[2] = 0

Abs(n) == IF n < 0 THEN -n ELSE n

Max(a, b) == IF a >= b THEN a ELSE b

Min(a, b) == IF a <= b THEN a ELSE b

RECURSIVE GCD(_, _)
GCD(a, b) == IF b = 0 THEN a ELSE GCD(b, a % b)

\* n/d in lowest terms with a positive denominator; x/0 is NaN.
Rat(n, d) ==
  IF d = 0 THEN NaN
  ELSE LET g == GCD(Abs(n), Abs(d))
           s == IF d < 0 THEN -1 ELSE 1
       IN <<(s * n) \div g, (s * d) \div g>>

R(i) == <<i, 1>>

RAdd(x, y) ==
  IF IsNaN(x) \/ IsNaN(y) THEN NaN
  ELSE LET g == GCD(x[2], y[2])
       IN Rat(x[1] * (y[2] \div g) + y[1] * (x[2] \div g), x[2] * (y[2] \div g))

RNeg(x) == IF IsNaN(x) THEN NaN ELSE <<-x[1], x[2]>>

RSub(x, y) == RAdd(x, RNeg(y))

RMul(x, y) ==
  IF IsNaN(x) \/ IsNaN(y) THEN NaN
  ELSE LET a == Rat(x[1], y[2])
           b == Rat(y[1], x[2])
       IN Rat(a[1] * b[1], a[2] * b[2])

RDiv(x, y) ==
  IF IsNaN(x) \/ IsNaN(y) \/ y[1] = 0 THEN NaN
  ELSE RMul(x, Rat(y[2], y[1]))

\* Comparisons are false when an operand is NaN, as for float64.
RLt(x, y) == ~IsNaN(x) /\ ~IsNaN(y) /\ x[1] * y[2] < y[1] * x[2]

RLe(x, y) == ~IsNaN(x) /\ ~IsNaN(y) /\ x[1] * y[2] <= y[1] * x[2]

RAbs(x) == IF IsNaN(x) THEN NaN ELSE <<Abs(x[1]), x[2]>>

RMax(x, y) == IF RLt(x, y) THEN y ELSE x

\* TA_EPSILON is 10^-14; the integers are too narrow for its denominator,
\* so it is held by its decimal exponent.
TA_EPSILON_EXPONENT == 14

\* a * 10^k < d for a >= 0 and d >= 1, decided without forming 10^k:
\* a * 10 < d is a < ((d - 1) div 10) + 1.
RECURSIVE ScaledBelow(_, _, _)
ScaledBelow(a, d, k) ==
  IF k = 0 THEN a < d ELSE ScaledBelow(a, ((d - 1) \div 10) + 1, k - 1)

\* TA_IS_ZERO(v): -TA_EPSILON < v < TA_EPSILON (false of NaN).
TA_IS_ZERO(v) == ~IsNaN(v) /\ ScaledBelow(Abs(v[1]), v[2], TA_EPSILON_EXPONENT)

\* TA_IS_ZERO_OR_NEG(v): v < TA_EPSILON (false of NaN).
TA_IS_ZERO_OR_NEG(v) ==
  ~IsNaN(v) /\ (v[1] < 0 \/ ScaledBelow(v[1], v[2], TA_EPSILON_EXPONENT))

\* Largest r in lo..hi with r * r <= m.
RECURSIVE ISqrt(_, _, _)
ISqrt(m, lo, hi) ==
  IF lo >= hi THEN lo
  ELSE LET mid == (lo + hi + 1) \div 2
       IN IF mid * mid <= m THEN ISqrt(m, mid, hi) ELSE ISqrt(m, lo, mid - 1)

\* Largest s <= from whose square divides m.
RECURSIVE SquarePart(_, _)
SquarePart(m, from) ==
  IF from <= 1 THEN 1
  ELSE IF m % (from * from) = 0 THEN from
  ELSE SquarePart(m, from - 1)

\* (p + q * sqrt(k)) / d in its normal form: a rational when q = 0 or k = 1.
Surd(p, q, d, k) ==
  IF d = 0 THEN NaN
  ELSE IF q = 0 THEN Rat(p, d)
  ELSE IF k = 1 THEN Rat(p + q, d)
  ELSE LET g == GCD(GCD(Abs(p), Abs(q)), Abs(d))
           s == IF d < 0 THEN -1 ELSE 1
       IN <<(s * p) \div g, (s * d) \div g, (s * q) \div g, k>>

\* The parts <<p, d, q, k>> of a rational or of a square-root value.
SurdParts(x) == IF Len(x) = 4 THEN x ELSE <<x[1], x[2], 0, 1>>

\* sqrt(x) of a rational x >= 0: sqrt(n/d) = s * sqrt(k) / d with
\* n * d = s * s * k and k square-free.
RSqrt(x) ==
  LET m == x[1] * x[2]
      s == SquarePart(m, ISqrt(m, 0, Min(m, 46340)))
  IN IF m = 0 THEN R(0) ELSE Surd(0, s, x[2], m \div (s * s))

\* Sum, difference and rational multiple of values that are rationals or
\* square-root values over one and the same k.
SAdd(x, y) ==
  IF IsNaN(x) \/ IsNaN(y) THEN NaN
  ELSE LET a == SurdParts(x)
           b == SurdParts(y)
       IN Surd(a[1] * b[2] + b[1] * a[2], a[3] * b[2] + b[3] * a[2], a[2] * b[2],
               IF a[3] # 0 THEN a[4] ELSE b[4])

SMul(x, r) ==
  IF IsNaN(x) \/ IsNaN(r) THEN NaN
  ELSE LET a == SurdParts(x) IN Surd(a[1] * r[1], a[3] * r[1], a[2] * r[2], a[4])

SSub(x, y) == SAdd(x, SMul(y, R(-1)))

Sign(n) == IF n > 0 THEN 1 ELSE IF n < 0 THEN -1 ELSE 0

\* Sign of x: of p + q * sqrt(k), decided on p * p against q * q * k when
\* p and q pull in opposite directions.
SSign(x) ==
  LET a == SurdParts(x)
  IN IF a[3] = 0 THEN Sign(a[1])
     ELSE IF a[1] = 0 \/ Sign(a[1]) = Sign(a[3]) THEN Sign(a[3])
     ELSE IF a[1] * a[1] > a[3] * a[3] * a[4] THEN Sign(a[1]) ELSE Sign(a[3])

SLe(x, y) == ~IsNaN(x) /\ ~IsNaN(y) /\ SSign(SSub(x, y)) <= 0

\* np.array(list, dtype=np.float64): every element becomes a float64.
NpArray(list) == [i \in 1..Len(list) |-> R(list[i])]

(***************************************************************************)
(* Outcome of a call: a returned value or a raised exception.              *)
(***************************************************************************)
Ok(v) == [ok |-> TRUE, err |-> "none", val |-> v]

Raise(e) == [ok |-> FALSE, err |-> e, val |-> <<>>]

\* The technical-analysis tools use no market-data source.
NoMarket == [used |-> FALSE]

(***************************************************************************)
(* The TA-Lib Python binding.                                              *)
(***************************************************************************)
\* make_double_array + the C routine writing at offset lookback: the first
\* min(lookback, length) entries are NaN, the routine's output follows.
Padded(length, lookback, vals) ==
  [i \in 1..length |-> IF i <= lookback THEN NaN ELSE vals[i - lookback]]

\* TA_INTEGER_DEFAULT (INT_MIN): passed as a period it selects the routine's
\* default period.
TA_INTEGER_DEFAULT == -2147483647 - 1

\* Every non-positive period taken as a request for the default.
Period_lenient(optIn, default) == IF optIn <= 0 THEN default ELSE optIn

Period(optIn, default) == IF optIn = TA_INTEGER_DEFAULT THEN default ELSE optIn

\* optInTimePeriod range check of a TA-Lib routine (TA_BAD_PARAM outside).
ValidPeriod(p, lo) == p >= lo /\ p <= 100000

\* check_begidx1 on an empty array: older bindings raise "inputs are all
\* NaN", newer ones go on and return the empty result.
Outcomes(length, r) ==
  IF length = 0 THEN {r, Raise("inputs are all NaN")} ELSE {r}

\* Sum of s[lo..hi] (TLA+ indices), accumulated left to right.
RECURSIVE RunSum(_, _, _)
RunSum(s, lo, hi) ==
  IF hi < lo THEN R(0) ELSE RAdd(RunSum(s, lo, hi - 1), s[hi])

(***************************************************************************)
(* TA_SMA / TA_INT_SMA.                                                    *)
(***************************************************************************)
\* Output of the C routine over a whole array: one value per index from
\* period-1 on, periodTotal / period.
\* The trailing window one element short.
INT_SMA_shortWindow(inReal, period) ==
  LET n == Len(inReal)
  IN IF period - 1 > n - 1 THEN <<>>
     ELSE [j \in 1..(n - period + 1) |->
             RDiv(RunSum(inReal, j + 1, j + period - 1), R(period))]

INT_SMA(inReal, period) ==
  LET n == Len(inReal)
  IN IF period - 1 > n - 1 THEN <<>>
     ELSE [j \in 1..(n - period + 1) |->
             RDiv(RunSum(inReal, j, j + period - 1), R(period))]

\* The routine's output returned without the leading NaN entries.
talib_SMA_unpadded(real, timeperiod) ==
  IF ~ValidPeriod(timeperiod, 2) THEN Raise("TA_BAD_PARAM")
  ELSE Ok(INT_SMA(real, timeperiod))

talib_SMA(real, timeperiod) ==
  LET optInTimePeriod == Period(timeperiod, 30)
  IN IF ~ValidPeriod(optInTimePeriod, 2) THEN Raise("TA_BAD_PARAM")
     ELSE Ok(Padded(Len(real), optInTimePeriod - 1, INT_SMA(real, optInTimePeriod)))

\* The entry point without its own length check.
simple_moving_average_unchecked(prices, timeperiod) ==
  talib_SMA(NpArray(prices), timeperiod)

simple_moving_average(prices, timeperiod) ==
  IF Len(prices) < timeperiod THEN Raise("ValueError")
  ELSE talib_SMA(NpArray(prices), timeperiod)

(***************************************************************************)
(* TA_EMA / TA_INT_EMA (default compatibility: seeded with an SMA).        *)
(***************************************************************************)
PER_TO_K(per) == Rat(2, per + 1)

\* prevMA = ((inReal[today] - prevMA) * k) + prevMA for today = from..Len.
RECURSIVE EmaRun(_, _, _, _, _)
EmaRun(inReal, k, today, prevMA, acc) ==
  IF today > Len(inReal) THEN acc
  ELSE LET ma == RAdd(RMul(RSub(inReal[today], prevMA), k), prevMA)
       IN EmaRun(inReal, k, today + 1, ma, Append(acc, ma))

\* The EMA seeded with the single value at the start index, not with an SMA.
INT_EMA_valueSeeded(inReal, startIdx, period, k) ==
  LET start == Max(startIdx, period - 1)
  IN IF start > Len(inReal) - 1 THEN [beg |-> 0, vals |-> <<>>]
     ELSE [beg |-> start,
           vals |-> EmaRun(inReal, k, start + 2, inReal[start + 1],
                           <<inReal[start + 1]>>)]

\* TA_INT_EMA(startIdx, endIdx = last, inReal, period, k): its outBegIdx
\* (Python index) and output values.
INT_EMA(inReal, startIdx, period, k) ==
  LET lookbackTotal == period - 1
      start == Max(startIdx, lookbackTotal)
      endIdx == Len(inReal) - 1
      first == start - lookbackTotal
      seed == RDiv(RunSum(inReal, first + 1, first + period), R(period))
  IN IF start > endIdx THEN [beg |-> 0, vals |-> <<>>]
     ELSE [beg |-> start, vals |-> EmaRun(inReal, k, start + 2, seed, <<seed>>)]

talib_EMA(real, timeperiod) ==
  LET optInTimePeriod == Period(timeperiod, 30)
  IN IF ~ValidPeriod(optInTimePeriod, 2) THEN Raise("TA_BAD_PARAM")
     ELSE Ok(Padded(Len(real), optInTimePeriod - 1,
                    INT_EMA(real, 0, optInTimePeriod, PER_TO_K(optInTimePeriod)).vals))

exponential_moving_average(prices, timeperiod) ==
  talib_EMA(NpArray(prices), timeperiod)

(***************************************************************************)
(* TA_DEMA and TA_TEMA: EMAs of EMAs, each seeded on the previous one.     *)
(***************************************************************************)
INT_DEMA(inReal, period) ==
  LET lookbackEMA == period - 1
      startIdx == 2 * lookbackEMA
      k == PER_TO_K(period)
      firstEMA == INT_EMA(inReal, startIdx - lookbackEMA, period, k)
      secondEMA == INT_EMA(firstEMA.vals, 0, period, k)
  IN IF startIdx > Len(inReal) - 1 THEN <<>>
     ELSE [j \in 1..Len(secondEMA.vals) |->
             RSub(RMul(R(2), firstEMA.vals[secondEMA.beg + j]), secondEMA.vals[j])]

talib_DEMA(real, timeperiod) ==
  LET optInTimePeriod == Period(timeperiod, 30)
  IN IF ~ValidPeriod(optInTimePeriod, 2) THEN Raise("TA_BAD_PARAM")
     ELSE Ok(Padded(Len(real), 2 * (optInTimePeriod - 1), INT_DEMA(real, optInTimePeriod)))

double_exponential_moving_average(prices, timeperiod) ==
  talib_DEMA(NpArray(prices), timeperiod)

\* The third EMA subtracted instead of added.
INT_TEMA_signSlip(inReal, period) ==
  LET lookbackEMA == period - 1
      k == PER_TO_K(period)
      firstEMA == INT_EMA(inReal, lookbackEMA, period, k)
      secondEMA == INT_EMA(firstEMA.vals, 0, period, k)
      thirdEMA == INT_EMA(secondEMA.vals, 0, period, k)
  IN IF 3 * lookbackEMA > Len(inReal) - 1 THEN <<>>
     ELSE [j \in 1..Len(thirdEMA.vals) |->
             RSub(RSub(RMul(R(3), firstEMA.vals[thirdEMA.beg + secondEMA.beg + j]),
                       RMul(R(3), secondEMA.vals[thirdEMA.beg + j])),
                  thirdEMA.vals[j])]

INT_TEMA(inReal, period) ==
  LET lookbackEMA == period - 1
      startIdx == 3 * lookbackEMA
      k == PER_TO_K(period)
      firstEMA == INT_EMA(inReal, startIdx - 2 * lookbackEMA, period, k)
      secondEMA == INT_EMA(firstEMA.vals, 0, period, k)
      thirdEMA == INT_EMA(secondEMA.vals, 0, period, k)
      firstEMAIdx == thirdEMA.beg + secondEMA.beg
      secondEMAIdx == thirdEMA.beg
  IN IF startIdx > Len(inReal) - 1 THEN <<>>
     ELSE [j \in 1..Len(thirdEMA.vals) |->
             RAdd(thirdEMA.vals[j],
                  RSub(RMul(R(3), firstEMA.vals[firstEMAIdx + j]),
                       RMul(R(3), secondEMA.vals[secondEMAIdx + j])))]

talib_TEMA(real, timeperiod) ==
  LET optInTimePeriod == Period(timeperiod, 30)
  IN IF ~ValidPeriod(optInTimePeriod, 2) THEN Raise("TA_BAD_PARAM")
     ELSE Ok(Padded(Len(real), 3 * (optInTimePeriod - 1), INT_TEMA(real, optInTimePeriod)))

triple_exponential_moving_average(prices, timeperiod) ==
  talib_TEMA(NpArray(prices), timeperiod)

(***************************************************************************)
(* TA_MOM: inReal[i] - inReal[i - period].                                 *)
(***************************************************************************)
INT_MOM(inReal, period) ==
  IF period > Len(inReal) - 1 THEN <<>>
  ELSE [j \in 1..(Len(inReal) - period) |-> RSub(inReal[j + period], inReal[j])]

talib_MOM(real, timeperiod) ==
  LET optInTimePeriod == Period(timeperiod, 10)
  IN IF ~ValidPeriod(optInTimePeriod, 1) THEN Raise("TA_BAD_PARAM")
     ELSE Ok(Padded(Len(real), optInTimePeriod, INT_MOM(real, optInTimePeriod)))

momentum(prices, timeperiod) == talib_MOM(NpArray(prices), timeperiod)

(***************************************************************************)
(* TA_ROC: ((inReal[i] / inReal[i - period]) - 1) * 100, 0 where the       *)
(* earlier value is zero.                                                  *)
(***************************************************************************)
\* The division made whatever the earlier value.
INT_ROC_unguarded(inReal, period) ==
  IF period > Len(inReal) - 1 THEN <<>>
  ELSE [j \in 1..(Len(inReal) - period) |->
          RMul(RSub(RDiv(inReal[j + period], inReal[j]), R(1)), R(100))]

INT_ROC(inReal, period) ==
  IF period > Len(inReal) - 1 THEN <<>>
  ELSE [j \in 1..(Len(inReal) - period) |->
          LET tempReal == inReal[j]
          IN IF tempReal # R(0)
             THEN RMul(RSub(RDiv(inReal[j + period], tempReal), R(1)), R(100))
             ELSE R(0)]

talib_ROC(real, timeperiod) ==
  LET optInTimePeriod == Period(timeperiod, 10)
  IN IF ~ValidPeriod(optInTimePeriod, 1) THEN Raise("TA_BAD_PARAM")
     ELSE Ok(Padded(Len(real), optInTimePeriod, INT_ROC(real, optInTimePeriod)))

rate_of_change(prices, timeperiod) == talib_ROC(NpArray(prices), timeperiod)

(***************************************************************************)
(* TA_RSI: Wilder-smoothed gains and losses.                               *)
(***************************************************************************)
\* 100 * (prevGain / (prevGain + prevLoss)), 0 when the sum is within
\* TA_EPSILON of zero: a series without any change, or with changes that
\* small, gets 0.
RsiValue(prevGain, prevLoss) ==
  LET tempValue1 == RAdd(prevGain, prevLoss)
  IN IF ~TA_IS_ZERO(tempValue1) THEN RMul(R(100), RDiv(prevGain, tempValue1)) ELSE R(0)

\* The gains summed as losses and the losses as gains.
RECURSIVE RsiSeed_swapped(_, _, _)
RsiSeed_swapped(inReal, today, isGain) ==
  IF today < 2 THEN R(0)
  ELSE LET tempValue2 == RSub(inReal[today], inReal[today - 1])
           rest == RsiSeed_swapped(inReal, today - 1, isGain)
       IN IF isGain
          THEN (IF RLt(tempValue2, R(0)) THEN RSub(rest, tempValue2) ELSE rest)
          ELSE (IF RLt(tempValue2, R(0)) THEN rest ELSE RAdd(rest, tempValue2))

\* Sums of the gains and of the losses of inReal[2..today] (TLA+ indices).
RECURSIVE RsiSeed(_, _, _)
RsiSeed(inReal, today, isGain) ==
  IF today < 2 THEN R(0)
  ELSE LET tempValue2 == RSub(inReal[today], inReal[today - 1])
           rest == RsiSeed(inReal, today - 1, isGain)
       IN IF isGain
          THEN (IF RLt(tempValue2, R(0)) THEN rest ELSE RAdd(rest, tempValue2))
          ELSE (IF RLt(tempValue2, R(0)) THEN RSub(rest, tempValue2) ELSE rest)

RECURSIVE RsiRun(_, _, _, _, _, _)
RsiRun(inReal, period, today, prevGain, prevLoss, acc) ==
  IF today > Len(inReal) THEN acc
  ELSE LET tempValue2 == RSub(inReal[today], inReal[today - 1])
           g0 == RMul(prevGain, R(period - 1))
           l0 == RMul(prevLoss, R(period - 1))
           g1 == IF RLt(tempValue2, R(0)) THEN g0 ELSE RAdd(g0, tempValue2)
           l1 == IF RLt(tempValue2, R(0)) THEN RSub(l0, tempValue2) ELSE l0
           g == RDiv(g1, R(period))
           l == RDiv(l1, R(period))
       IN RsiRun(inReal, period, today + 1, g, l, Append(acc, RsiValue(g, l)))

INT_RSI(inReal, period) ==
  LET prevGain == RDiv(RsiSeed(inReal, period + 1, TRUE), R(period))
      prevLoss == RDiv(RsiSeed(inReal, period + 1, FALSE), R(period))
  IN IF period > Len(inReal) - 1 THEN <<>>
     ELSE RsiRun(inReal, period, period + 2, prevGain, prevLoss,
                 <<RsiValue(prevGain, prevLoss)>>)

talib_RSI(real, timeperiod) ==
  LET optInTimePeriod == Period(timeperiod, 14)
  IN IF ~ValidPeriod(optInTimePeriod, 2) THEN Raise("TA_BAD_PARAM")
     ELSE Ok(Padded(Len(real), optInTimePeriod, INT_RSI(real, optInTimePeriod)))

relative_strength_index(prices, timeperiod) ==
  talib_RSI(NpArray(prices), timeperiod)

(***************************************************************************)
(* TA_MACD / TA_INT_MACD.                                                  *)
(***************************************************************************)
\* The outputs from the fast EMA minus the slow EMA: the signal line is
\* the EMA of that line, and the line and the histogram start where the
\* signal line does.
MacdOutputs(line, signalPeriod) ==
  LET lookbackSignal == signalPeriod - 1
      outMACD == [i \in 1..(Len(line) - lookbackSignal) |-> line[lookbackSignal + i]]
      outSignal == INT_EMA(line, 0, signalPeriod, PER_TO_K(signalPeriod)).vals
      outHist == [i \in 1..Len(outSignal) |-> RSub(outMACD[i], outSignal[i])]
  IN [macd |-> outMACD, signal |-> outSignal, hist |-> outHist]

\* Both EMAs are started at the same index, the first index of the slow
\* EMA that the signal line needs: the fast EMA is seeded on the
\* fastPeriod values that end there.
INT_MACD(inReal, fastPeriod0, slowPeriod0, signalPeriod) ==
  LET slowPeriod == Max(fastPeriod0, slowPeriod0)
      fastPeriod == Min(fastPeriod0, slowPeriod0)
      k1 == PER_TO_K(slowPeriod)
      k2 == PER_TO_K(fastPeriod)
      lookbackSignal == signalPeriod - 1
      startIdx == lookbackSignal + (slowPeriod - 1)
      tempInteger == startIdx - lookbackSignal
      slowEMA == INT_EMA(inReal, tempInteger, slowPeriod, k1).vals
      fastEMA == INT_EMA(inReal, tempInteger, fastPeriod, k2).vals
  IN IF startIdx > Len(inReal) - 1
     THEN [macd |-> <<>>, signal |-> <<>>, hist |-> <<>>]
     ELSE MacdOutputs([i \in 1..Len(slowEMA) |-> RSub(fastEMA[i], slowEMA[i])],
                      signalPeriod)

\* The three output arrays of the binding, out written at offset lookback.
MacdArrays(length, lookback, out) ==
  [macd |-> Padded(length, lookback, out.macd),
   signal |-> Padded(length, lookback, out.signal),
   histogram |-> Padded(length, lookback, out.hist)]

talib_MACD(real, fastperiod0, slowperiod0, signalperiod0) ==
  LET fastperiod == Period(fastperiod0, 12)
      slowperiod == Period(slowperiod0, 26)
      signalperiod == Period(signalperiod0, 9)
      lookback == (Max(fastperiod, slowperiod) - 1) + (signalperiod - 1)
  IN IF ~ValidPeriod(fastperiod, 2) \/ ~ValidPeriod(slowperiod, 2)
        \/ ~ValidPeriod(signalperiod, 1)
     THEN Raise("TA_BAD_PARAM")
     ELSE Ok(MacdArrays(Len(real), lookback,
                        INT_MACD(real, fastperiod, slowperiod, signalperiod)))

macd(prices, fastperiod, slowperiod, signalperiod) ==
  talib_MACD(NpArray(prices), fastperiod, slowperiod, signalperiod)

(***************************************************************************)
(* TA_BBANDS with the default moving average (matype = 0, SMA).            *)
(***************************************************************************)
Squares(s) == [i \in 1..Len(s) |-> RMul(s[i], s[i])]

\* TA_INT_stddev_using_precalc_ma: sqrt(mean of squares - square of mean),
\* 0 when that difference is zero or negative (TA_IS_ZERO_OR_NEG).
INT_stddev_using_precalc_ma(inReal, inMovAvg, timePeriod) ==
  [j \in 1..Len(inMovAvg) |->
     LET meanValue2 ==
           RSub(RDiv(RunSum(Squares(inReal), j, j + timePeriod - 1), R(timePeriod)),
                RMul(inMovAvg[j], inMovAvg[j]))
     IN IF ~TA_IS_ZERO_OR_NEG(meanValue2) THEN RSqrt(meanValue2) ELSE R(0)]

\* The lower band added to the middle band instead of subtracted.
INT_BBANDS_lowerAdded(inReal, period, nbDevUp, nbDevDn) ==
  LET middle == INT_SMA(inReal, period)
      sd == INT_stddev_using_precalc_ma(inReal, middle, period)
  IN [upper |-> [j \in 1..Len(middle) |-> SAdd(middle[j], SMul(sd[j], nbDevUp))],
      middle |-> middle,
      lower |-> [j \in 1..Len(middle) |-> SAdd(middle[j], SMul(sd[j], nbDevDn))]]

INT_BBANDS(inReal, period, nbDevUp, nbDevDn) ==
  LET middle == INT_SMA(inReal, period)
      sd == INT_stddev_using_precalc_ma(inReal, middle, period)
  IN [upper |-> [j \in 1..Len(middle) |-> SAdd(middle[j], SMul(sd[j], nbDevUp))],
      middle |-> middle,
      lower |-> [j \in 1..Len(middle) |-> SSub(middle[j], SMul(sd[j], nbDevDn))]]

\* The outer bands starting one index after the middle band.
talib_BBANDS_bandsLater(real, timeperiod, nbdevup, nbdevdn) ==
  LET optInTimePeriod == Period(timeperiod, 5)
      out == INT_BBANDS(real, optInTimePeriod, nbdevup, nbdevdn)
  IN IF ~ValidPeriod(optInTimePeriod, 2) THEN Raise("TA_BAD_PARAM")
     ELSE Ok([upper |-> Padded(Len(real), optInTimePeriod, out.upper),
              middle |-> Padded(Len(real), optInTimePeriod - 1, out.middle),
              lower |-> Padded(Len(real), optInTimePeriod, out.lower)])

talib_BBANDS(real, timeperiod, nbdevup, nbdevdn) ==
  LET optInTimePeriod == Period(timeperiod, 5)
      out == INT_BBANDS(real, optInTimePeriod, nbdevup, nbdevdn)
  IN IF ~ValidPeriod(optInTimePeriod, 2) THEN Raise("TA_BAD_PARAM")
     ELSE Ok([upper |-> Padded(Len(real), optInTimePeriod - 1, out.upper),
              middle |-> Padded(Len(real), optInTimePeriod - 1, out.middle),
              lower |-> Padded(Len(real), optInTimePeriod - 1, out.lower)])

bollinger_bands(prices, timeperiod, nbdevup, nbdevdn) ==
  talib_BBANDS(NpArray(prices), timeperiod, R(nbdevup), R(nbdevdn))

(***************************************************************************)
(* Several input series: check_length2/3 of the binding.                   *)
(***************************************************************************)
SameLength(arrays) == \A i, j \in 1..Len(arrays) : Len(arrays[i]) = Len(arrays[j])

\* The binding compares the lengths before anything is computed.
Checked(arrays, r) ==
  IF SameLength(arrays) THEN r ELSE Raise("input array lengths are different")

(***************************************************************************)
(* TA_OBV.                                                                 *)
(***************************************************************************)
\* The volume of a falling bar left out instead of subtracted.
RECURSIVE ObvRun_ignoringFalls(_, _, _, _, _)
ObvRun_ignoringFalls(inReal, inVolume, i, prevOBV, acc) ==
  IF i > Len(inReal) THEN acc
  ELSE LET prevReal == IF i = 1 THEN inReal[1] ELSE inReal[i - 1]
           obv == IF RLt(prevReal, inReal[i]) THEN RAdd(prevOBV, inVolume[i])
                  ELSE prevOBV
       IN ObvRun_ignoringFalls(inReal, inVolume, i + 1, obv, Append(acc, obv))

RECURSIVE ObvRun(_, _, _, _, _)
ObvRun(inReal, inVolume, i, prevOBV, acc) ==
  IF i > Len(inReal) THEN acc
  ELSE LET prevReal == IF i = 1 THEN inReal[1] ELSE inReal[i - 1]
           obv == IF RLt(prevReal, inReal[i]) THEN RAdd(prevOBV, inVolume[i])
                  ELSE IF RLt(inReal[i], prevReal) THEN RSub(prevOBV, inVolume[i])
                  ELSE prevOBV
       IN ObvRun(inReal, inVolume, i + 1, obv, Append(acc, obv))

\* The running total started at zero instead of at the first volume.
INT_OBV_fromZero(inReal, inVolume) ==
  IF Len(inReal) = 0 THEN <<>>
  ELSE ObvRun(inReal, inVolume, 1, R(0), <<>>)

INT_OBV(inReal, inVolume) ==
  IF Len(inReal) = 0 THEN <<>>
  ELSE ObvRun(inReal, inVolume, 1, inVolume[1], <<>>)

\* Series of different lengths cut to the shortest instead of rejected.
talib_OBV_truncating(real, volume) ==
  LET n == Min(Len(real), Len(volume))
  IN Ok(Padded(n, 0, INT_OBV(SubSeq(real, 1, n), SubSeq(volume, 1, n))))

talib_OBV(real, volume) ==
  Checked(<<real, volume>>, Ok(Padded(Len(real), 0, INT_OBV(real, volume))))

on_balance_volume(close_prices, volume) ==
  talib_OBV(NpArray(close_prices), NpArray(volume))

(***************************************************************************)
(* TA_TRANGE and TA_ATR.                                                   *)
(***************************************************************************)
\* True range of Python index i >= 1, stored at TLA+ index i.
INT_TRANGE(inHigh, inLow, inClose) ==
  [i \in 1..(Len(inHigh) - 1) |->
     RMax(RSub(inHigh[i + 1], inLow[i + 1]),
          RMax(RAbs(RSub(inClose[i], inHigh[i + 1])),
               RAbs(RSub(inClose[i], inLow[i + 1]))))]

\* prevATR = (prevATR * (period - 1) + TR[today]) / period.
RECURSIVE AtrRun(_, _, _, _, _)
AtrRun(tr, period, today, prevATR, acc) ==
  IF today > Len(tr) THEN acc
  ELSE LET atr == RDiv(RAdd(RMul(prevATR, R(period - 1)), tr[today]), R(period))
       IN AtrRun(tr, period, today + 1, atr, Append(acc, atr))

INT_ATR(inHigh, inLow, inClose, period) ==
  LET tr == INT_TRANGE(inHigh, inLow, inClose)
      prevATR == RDiv(RunSum(tr, 1, period), R(period))
  IN IF period > Len(inHigh) - 1 THEN <<>>
     ELSE IF period <= 1 THEN tr
     ELSE AtrRun(tr, period, period + 1, prevATR, <<prevATR>>)

talib_ATR(high, low, close, timeperiod) ==
  LET optInTimePeriod == Period(timeperiod, 14)
  IN Checked(<<high, low, close>>,
       IF ~ValidPeriod(optInTimePeriod, 1) THEN Raise("TA_BAD_PARAM")
       ELSE Ok(Padded(Len(high), optInTimePeriod,
                      INT_ATR(high, low, close, optInTimePeriod))))

average_true_range(high_prices, low_prices, close_prices, timeperiod) ==
  talib_ATR(NpArray(high_prices), NpArray(low_prices), NpArray(close_prices), timeperiod)

(***************************************************************************)
(* TA_NATR: (ATR / close) * 100, 0.0 where the close is zero (TA_IS_ZERO). *)
(* With a period of 1 the routine returns the true range as it is.         *)
(***************************************************************************)
INT_NATR(inHigh, inLow, inClose, period) ==
  LET atr == INT_ATR(inHigh, inLow, inClose, period)
  IN IF period <= 1 THEN atr
     ELSE [j \in 1..Len(atr) |->
             LET tempValue == inClose[j + period]
             IN IF ~TA_IS_ZERO(tempValue) THEN RMul(RDiv(atr[j], tempValue), R(100))
                ELSE R(0)]

talib_NATR(high, low, close, timeperiod) ==
  LET optInTimePeriod == Period(timeperiod, 14)
  IN Checked(<<high, low, close>>,
       IF ~ValidPeriod(optInTimePeriod, 1) THEN Raise("TA_BAD_PARAM")
       ELSE Ok(Padded(Len(high), optInTimePeriod,
                      INT_NATR(high, low, close, optInTimePeriod))))

normalized_average_true_range(high_prices, low_prices, close_prices, timeperiod) ==
  talib_NATR(NpArray(high_prices), NpArray(low_prices), NpArray(close_prices), timeperiod)

(***************************************************************************)
(* TA_AD: the running total of ((close-low) - (high-close)) / (high-low)   *)
(* times volume, started at zero; a bar whose range is not positive adds   *)
(* nothing.                                                                *)
(***************************************************************************)
\* The division made whatever the range.
RECURSIVE AdRun_unguarded(_, _, _, _, _, _, _)
AdRun_unguarded(inHigh, inLow, inClose, inVolume, currentBar, ad, acc) ==
  IF currentBar > Len(inHigh) THEN acc
  ELSE LET high == inHigh[currentBar]
           low == inLow[currentBar]
           tmp == RSub(high, low)
           close == inClose[currentBar]
           next == RAdd(ad, RMul(RDiv(RSub(RSub(close, low), RSub(high, close)), tmp),
                                 inVolume[currentBar]))
       IN AdRun_unguarded(inHigh, inLow, inClose, inVolume, currentBar + 1, next,
                          Append(acc, next))

RECURSIVE AdRun(_, _, _, _, _, _, _)
AdRun(inHigh, inLow, inClose, inVolume, currentBar, ad, acc) ==
  IF currentBar > Len(inHigh) THEN acc
  ELSE LET high == inHigh[currentBar]
           low == inLow[currentBar]
           tmp == RSub(high, low)
           close == inClose[currentBar]
           next == IF RLt(R(0), tmp)
                   THEN RAdd(ad, RMul(RDiv(RSub(RSub(close, low), RSub(high, close)),
                                           tmp),
                                      inVolume[currentBar]))
                   ELSE ad
       IN AdRun(inHigh, inLow, inClose, inVolume, currentBar + 1, next,
                Append(acc, next))

INT_AD(inHigh, inLow, inClose, inVolume) ==
  AdRun(inHigh, inLow, inClose, inVolume, 1, R(0), <<>>)

talib_AD(high, low, close, volume) ==
  Checked(<<high, low, close, volume>>,
          Ok(Padded(Len(high), 0, INT_AD(high, low, close, volume))))

accumulation_distribution_line(high_prices, low_prices, close_prices, volume) ==
  talib_AD(NpArray(high_prices), NpArray(low_prices), NpArray(close_prices),
           NpArray(volume))

(***************************************************************************)
(* TA_MFI.  The money flow of a bar is its typical price times its volume, *)
(* positive when the typical price rose against the bar before, negative   *)
(* when it fell, neither when it is unchanged.                             *)
(***************************************************************************)
\* Money flow of the bar at TLA+ index today >= 2.
MoneyFlow(inHigh, inLow, inClose, inVolume, today) ==
  LET typical(i) == RDiv(RAdd(RAdd(inHigh[i], inLow[i]), inClose[i]), R(3))
      tempValue2 == RSub(typical(today), typical(today - 1))
      tempValue1 == RMul(typical(today), inVolume[today])
  IN IF RLt(tempValue2, R(0)) THEN [positive |-> R(0), negative |-> tempValue1]
     ELSE IF RLt(R(0), tempValue2) THEN [positive |-> tempValue1, negative |-> R(0)]
     ELSE [positive |-> R(0), negative |-> R(0)]

\* 100 * (posSumMF / (posSumMF + negSumMF)) over the last period flows,
\* 0.0 when the sum of the two is below 1.
INT_MFI(inHigh, inLow, inClose, inVolume, period) ==
  LET n == Len(inHigh)
      pos == [i \in 1..(n - 1) |->
                MoneyFlow(inHigh, inLow, inClose, inVolume, i + 1).positive]
      neg == [i \in 1..(n - 1) |->
                MoneyFlow(inHigh, inLow, inClose, inVolume, i + 1).negative]
  IN IF period > n - 1 THEN <<>>
     ELSE [j \in 1..(n - period) |->
             LET posSumMF == RunSum(pos, j, j + period - 1)
                 negSumMF == RunSum(neg, j, j + period - 1)
                 tempValue1 == RAdd(posSumMF, negSumMF)
             IN IF RLt(tempValue1, R(1)) THEN R(0)
                ELSE RMul(R(100), RDiv(posSumMF, tempValue1))]

talib_MFI(high, low, close, volume, timeperiod) ==
  LET optInTimePeriod == Period(timeperiod, 14)
  IN Checked(<<high, low, close, volume>>,
       IF ~ValidPeriod(optInTimePeriod, 2) THEN Raise("TA_BAD_PARAM")
       ELSE Ok(Padded(Len(high), optInTimePeriod,
                      INT_MFI(high, low, close, volume, optInTimePeriod))))

money_flow_index(high_prices, low_prices, close_prices, volume, timeperiod) ==
  talib_MFI(NpArray(high_prices), NpArray(low_prices), NpArray(close_prices),
            NpArray(volume), timeperiod)

(***************************************************************************)
(* TA_STOCH with the default moving averages (matype = 0, SMA).            *)
(***************************************************************************)
RECURSIVE Lowest(_, _, _)
Lowest(s, lo, hi) ==
  IF lo >= hi THEN s[hi]
  ELSE LET rest == Lowest(s, lo, hi - 1) IN IF RLt(s[hi], rest) THEN s[hi] ELSE rest

RECURSIVE Highest(_, _, _)
Highest(s, lo, hi) ==
  IF lo >= hi THEN s[hi]
  ELSE LET rest == Highest(s, lo, hi - 1) IN IF RLt(rest, s[hi]) THEN s[hi] ELSE rest

\* TA_MA_Lookback and TA_MA for the SMA: a period of 1 copies the input.
MA_Lookback(period) == IF period <= 1 THEN 0 ELSE period - 1

INT_MA(inReal, period) == IF period <= 1 THEN inReal ELSE INT_SMA(inReal, period)

\* Fast %K of Python index j + fastK_Period - 2, stored at TLA+ index j:
\* (close - lowest) / ((highest - lowest) / 100), 0 on a zero range.
INT_FASTK(inHigh, inLow, inClose, fastK_Period) ==
  [j \in 1..(Len(inClose) - (fastK_Period - 1)) |->
     LET today == j + fastK_Period - 1
         lowest == Lowest(inLow, j, today)
         highest == Highest(inHigh, j, today)
         diff == RDiv(RSub(highest, lowest), R(100))
     IN IF diff[1] # 0 THEN RDiv(RSub(inClose[today], lowest), diff) ELSE R(0)]

INT_STOCH(inHigh, inLow, inClose, fastK_Period, slowK_Period, slowD_Period) ==
  LET lookbackDSlow == MA_Lookback(slowD_Period)
      lookbackTotal == (fastK_Period - 1) + MA_Lookback(slowK_Period) + lookbackDSlow
      tempBuffer == INT_FASTK(inHigh, inLow, inClose, fastK_Period)
      slowK == INT_MA(tempBuffer, slowK_Period)
      slowD == INT_MA(slowK, slowD_Period)
  IN IF lookbackTotal > Len(inClose) - 1 THEN [slowk |-> <<>>, slowd |-> <<>>]
     ELSE [slowk |-> [i \in 1..Len(slowD) |-> slowK[lookbackDSlow + i]],
           slowd |-> slowD]

talib_STOCH(high, low, close, fastk_period0, slowk_period0, slowd_period0) ==
  LET fastk_period == Period(fastk_period0, 5)
      slowk_period == Period(slowk_period0, 3)
      slowd_period == Period(slowd_period0, 3)
      lookback == (fastk_period - 1) + MA_Lookback(slowk_period)
                    + MA_Lookback(slowd_period)
      out == INT_STOCH(high, low, close, fastk_period, slowk_period, slowd_period)
  IN Checked(<<high, low, close>>,
       IF ~ValidPeriod(fastk_period, 1) \/ ~ValidPeriod(slowk_period, 1)
          \/ ~ValidPeriod(slowd_period, 1)
       THEN Raise("TA_BAD_PARAM")
       ELSE Ok([slowk |-> Padded(Len(high), lookback, out.slowk),
                slowd |-> Padded(Len(high), lookback, out.slowd)]))

stochastic_oscillator(high_prices, low_prices, close_prices, fastk_period, slowk_period, slowd_period) ==
  talib_STOCH(NpArray(high_prices), NpArray(low_prices), NpArray(close_prices),
              fastk_period, slowk_period, slowd_period)

(***************************************************************************)
(* TA_WILLR.                                                               *)
(***************************************************************************)
\* Numerator taken from the lowest low instead of the highest high.
INT_WILLR_fromLowest(inHigh, inLow, inClose, period) ==
  [j \in 1..(Len(inClose) - (period - 1)) |->
     LET today == j + period - 1
         lowest == Lowest(inLow, j, today)
         highest == Highest(inHigh, j, today)
         diff == RDiv(RSub(highest, lowest), R(-100))
     IN IF diff[1] # 0 THEN RDiv(RSub(lowest, inClose[today]), diff) ELSE R(0)]

\* %R of Python index j + period - 2, stored at TLA+ index j:
\* (highest - close) / ((highest - lowest) / -100), 0 on a zero range.
INT_WILLR(inHigh, inLow, inClose, period) ==
  [j \in 1..(Len(inClose) - (period - 1)) |->
     LET today == j + period - 1
         lowest == Lowest(inLow, j, today)
         highest == Highest(inHigh, j, today)
         diff == RDiv(RSub(highest, lowest), R(-100))
     IN IF diff[1] # 0 THEN RDiv(RSub(highest, inClose[today]), diff) ELSE R(0)]

talib_WILLR(high, low, close, timeperiod) ==
  LET optInTimePeriod == Period(timeperiod, 14)
  IN Checked(<<high, low, close>>,
       IF ~ValidPeriod(optInTimePeriod, 2) THEN Raise("TA_BAD_PARAM")
       ELSE Ok(Padded(Len(high), optInTimePeriod - 1,
                      INT_WILLR(high, low, close, optInTimePeriod))))

williams_percent_r(high_prices, low_prices, close_prices, timeperiod) ==
  talib_WILLR(NpArray(high_prices), NpArray(low_prices), NpArray(close_prices), timeperiod)

(***************************************************************************)
(* TA_SAR.  The state carried from bar to bar is the trend (isLong), the   *)
(* SAR computed for the coming bar, the extreme point ep and the           *)
(* acceleration factor af.  The trace keeps, for every output bar, the SAR *)
(* emitted and the state left behind.                                      *)
(***************************************************************************)
RMin(x, y) == IF RLt(y, x) THEN y ELSE x

\* optInAcceleration / optInMaximum range check (0 .. TA_REAL_MAX).
ValidFactor(x) == RLe(R(0), x)

\* TA_MINUS_DM with period 1 at the first output bar: the initial trend is
\* short when the -DM is positive, long otherwise.
SarInitialLong(inHigh, inLow) ==
  LET diffP == RSub(inHigh[2], inHigh[1])
      diffM == RSub(inLow[1], inLow[2])
  IN ~(RLt(R(0), diffM) /\ RLt(diffP, diffM))

\* One pass of the loop body: emit the SAR of the bar, then prepare the next.
SarStep(st, prevHigh, prevLow, newHigh, newLow, acceleration, maximum) ==
  LET stepped(sar, af, ep) == RAdd(sar, RMul(af, RSub(ep, sar)))
      bumped == RMin(RAdd(st.af, acceleration), maximum)
  IN IF st.isLong
     THEN IF RLe(newLow, st.sar)
          THEN \* switch to short: override the SAR with ep, kept at or
               \* above yesterday's and today's high
               LET over == RMax(RMax(st.ep, prevHigh), newHigh)
                   next == stepped(over, acceleration, newLow)
               IN [isLong |-> FALSE, out |-> over, switched |-> TRUE,
                   af |-> acceleration, ep |-> newLow,
                   sar |-> RMax(RMax(next, prevHigh), newHigh)]
          ELSE LET ep == IF RLt(st.ep, newHigh) THEN newHigh ELSE st.ep
                   af == IF RLt(st.ep, newHigh) THEN bumped ELSE st.af
                   next == stepped(st.sar, af, ep)
               IN [isLong |-> TRUE, out |-> st.sar, switched |-> FALSE,
                   af |-> af, ep |-> ep,
                   sar |-> RMin(RMin(next, prevLow), newLow)]
     ELSE IF RLe(st.sar, newHigh)
          THEN \* switch to long: override the SAR with ep, kept at or
               \* below yesterday's and today's low
               LET over == RMin(RMin(st.ep, prevLow), newLow)
                   next == stepped(over, acceleration, newHigh)
               IN [isLong |-> TRUE, out |-> over, switched |-> TRUE,
                   af |-> acceleration, ep |-> newHigh,
                   sar |-> RMin(RMin(next, prevLow), newLow)]
          ELSE LET ep == IF RLt(newLow, st.ep) THEN newLow ELSE st.ep
                   af == IF RLt(newLow, st.ep) THEN bumped ELSE st.af
                   next == stepped(st.sar, af, ep)
               IN [isLong |-> FALSE, out |-> st.sar, switched |-> FALSE,
                   af |-> af, ep |-> ep,
                   sar |-> RMax(RMax(next, prevHigh), newHigh)]

\* The loop over the bars.  In the first pass "yesterday" is the bar itself
\* (newLow and newHigh are preset to it before the loop).
RECURSIVE SarRun(_, _, _, _, _, _, _)
SarRun(inHigh, inLow, acceleration, maximum, today, st, acc) ==
  IF today > Len(inHigh) THEN acc
  ELSE LET prev == IF today = 2 THEN today ELSE today - 1
           nx == SarStep(st, inHigh[prev], inLow[prev], inHigh[today], inLow[today],
                         acceleration, maximum)
       IN SarRun(inHigh, inLow, acceleration, maximum, today + 1, nx, Append(acc, nx))

\* The acceleration taken as given, even above the maximum.
SarTrace_unlowered(inHigh, inLow, optInAcceleration, optInMaximum) ==
  IF Len(inHigh) < 2 THEN <<>>
  ELSE LET isLong == SarInitialLong(inHigh, inLow)
           st == [isLong |-> isLong, out |-> NaN, switched |-> FALSE,
                  af |-> optInAcceleration,
                  ep |-> IF isLong THEN inHigh[2] ELSE inLow[2],
                  sar |-> IF isLong THEN inLow[1] ELSE inHigh[1]]
       IN SarRun(inHigh, inLow, optInAcceleration, optInMaximum, 2, st, <<>>)

\* Trace of the output bars (Python indices 1..), empty below two bars.  An
\* acceleration above the maximum is lowered to the maximum.
SarTrace(inHigh, inLow, optInAcceleration, optInMaximum) ==
  IF Len(inHigh) < 2 THEN <<>>
  ELSE LET acceleration == RMin(optInAcceleration, optInMaximum)
           isLong == SarInitialLong(inHigh, inLow)
           st == [isLong |-> isLong, out |-> NaN, switched |-> FALSE,
                  af |-> acceleration,
                  ep |-> IF isLong THEN inHigh[2] ELSE inLow[2],
                  sar |-> IF isLong THEN inLow[1] ELSE inHigh[1]]
       IN SarRun(inHigh, inLow, acceleration, optInMaximum, 2, st, <<>>)

INT_SAR(inHigh, inLow, optInAcceleration, optInMaximum) ==
  LET trace == SarTrace(inHigh, inLow, optInAcceleration, optInMaximum)
  IN [i \in 1..Len(trace) |-> trace[i].out]

talib_SAR(high, low, acceleration, maximum) ==
  Checked(<<high, low>>,
          IF ~ValidFactor(acceleration) \/ ~ValidFactor(maximum)
          THEN Raise("TA_BAD_PARAM")
          ELSE Ok(Padded(Len(high), 1, INT_SAR(high, low, acceleration, maximum))))

parabolic_sar(high_prices, low_prices, acceleration, maximum) ==
  talib_SAR(NpArray(high_prices), NpArray(low_prices), acceleration, maximum)

(***************************************************************************)
(* Candlestick recognizers (the TA_CDL routines).  b is the record of the   *)
(* four price arrays; indices are TLA+ indices (Python index + 1).         *)
(***************************************************************************)
\* make_int_array + the C routine writing at offset lookback: the first
\* min(lookback, length) entries are 0, the routine's output follows.
PaddedInt(length, lookback, vals) ==
  [i \in 1..length |-> IF i <= lookback THEN 0 ELSE vals[i - lookback]]

Bars(open, high, low, close) ==
  [open |-> open, high |-> high, low |-> low, close |-> close]

\* TA_REALBODY, TA_UPPERSHADOW, TA_LOWERSHADOW, TA_HIGHLOWRANGE, TA_CANDLECOLOR.
RealBody(b, i) == RAbs(RSub(b.close[i], b.open[i]))

UpperShadow(b, i) ==
  RSub(b.high[i], IF RLe(b.open[i], b.close[i]) THEN b.close[i] ELSE b.open[i])

LowerShadow(b, i) ==
  RSub(IF RLe(b.open[i], b.close[i]) THEN b.open[i] ELSE b.close[i], b.low[i])

HighLowRange(b, i) == RSub(b.high[i], b.low[i])

CandleColor(b, i) == IF RLe(b.open[i], b.close[i]) THEN 1 ELSE -1

BodyTop(b, i) == RMax(b.open[i], b.close[i])

BodyBottom(b, i) == RMin(b.open[i], b.close[i])

\* TA_REALBODYGAPUP(i, j) and TA_REALBODYGAPDOWN(i, j).
RealBodyGapUp(b, i, j) == RLt(BodyTop(b, j), BodyBottom(b, i))

RealBodyGapDown(b, i, j) == RLt(BodyTop(b, i), BodyBottom(b, j))

\* The default candle settings (TA_CandleDefaultSettings).
BodyLong == [rangeType |-> "RealBody", avgPeriod |-> 10, factor |-> <<1, 1>>]

BodyShort == [rangeType |-> "RealBody", avgPeriod |-> 10, factor |-> <<1, 1>>]

BodyDoji == [rangeType |-> "HighLow", avgPeriod |-> 10, factor |-> <<1, 10>>]

ShadowLong == [rangeType |-> "RealBody", avgPeriod |-> 0, factor |-> <<1, 1>>]

ShadowVeryShort == [rangeType |-> "HighLow", avgPeriod |-> 10, factor |-> <<1, 10>>]

Near == [rangeType |-> "HighLow", avgPeriod |-> 5, factor |-> <<1, 5>>]

\* TA_CANDLERANGE.
CandleRange(set, b, i) ==
  CASE set.rangeType = "RealBody" -> RealBody(b, i)
    [] set.rangeType = "HighLow" -> HighLowRange(b, i)
    [] OTHER -> RAdd(UpperShadow(b, i), LowerShadow(b, i))

\* The running total of a setting at candle idx: the ranges of the
\* avgPeriod candles before idx.
RECURSIVE CandleTotal(_, _, _, _)
CandleTotal(set, b, lo, hi) ==
  IF hi < lo THEN R(0)
  ELSE RAdd(CandleTotal(set, b, lo, hi - 1), CandleRange(set, b, hi))

\* TA_CANDLEAVERAGE: factor * (average range, or the candle's own range when
\* the setting has no averaging period), halved for the shadows type.
CandleAverage(set, b, idx) ==
  LET total == CandleTotal(set, b, idx - set.avgPeriod, idx - 1)
      base == IF set.avgPeriod # 0 THEN RDiv(total, R(set.avgPeriod))
              ELSE CandleRange(set, b, idx)
  IN RDiv(RMul(set.factor, base),
          IF set.rangeType = "Shadows" THEN R(2) ELSE R(1))

CDLDOJI_Lookback == BodyDoji.avgPeriod

\* A real body strictly shorter than the BodyDoji average.
INT_CDLDOJI_strict(b) ==
  LET rule(i) == IF RLt(RealBody(b, i), CandleAverage(BodyDoji, b, i)) THEN 100 ELSE 0
  IN [k \in 1..(Len(b.close) - CDLDOJI_Lookback) |->
        rule(k + CDLDOJI_Lookback)]

\* Doji: real body no longer than the BodyDoji average.
INT_CDLDOJI(b) ==
  LET rule(i) == IF RLe(RealBody(b, i), CandleAverage(BodyDoji, b, i)) THEN 100 ELSE 0
  IN [k \in 1..(Len(b.close) - CDLDOJI_Lookback) |->
        rule(k + CDLDOJI_Lookback)]

CDLHAMMER_Lookback ==
  Max(Max(Max(BodyShort.avgPeriod, ShadowLong.avgPeriod), ShadowVeryShort.avgPeriod),
      Near.avgPeriod) + 1

\* Hammer: small real body, long lower shadow, no or very short upper
\* shadow, body at or near the lows of the previous candle.
INT_CDLHAMMER(b) ==
  LET rule(i) ==
        IF /\ RLt(RealBody(b, i), CandleAverage(BodyShort, b, i))
           /\ RLt(CandleAverage(ShadowLong, b, i), LowerShadow(b, i))
           /\ RLt(UpperShadow(b, i), CandleAverage(ShadowVeryShort, b, i))
           /\ RLe(BodyBottom(b, i),
                  RAdd(b.low[i - 1], CandleAverage(Near, b, i - 1)))
        THEN 100 ELSE 0
  IN [k \in 1..(Len(b.close) - CDLHAMMER_Lookback) |->
        rule(k + CDLHAMMER_Lookback)]

CDLSHOOTINGSTAR_Lookback ==
  Max(Max(BodyShort.avgPeriod, ShadowLong.avgPeriod), ShadowVeryShort.avgPeriod) + 1

\* Shooting star: small real body, long upper shadow, no or very short
\* lower shadow, real body gapping up.
INT_CDLSHOOTINGSTAR(b) ==
  LET rule(i) ==
        IF /\ RLt(RealBody(b, i), CandleAverage(BodyShort, b, i))
           /\ RLt(CandleAverage(ShadowLong, b, i), UpperShadow(b, i))
           /\ RLt(LowerShadow(b, i), CandleAverage(ShadowVeryShort, b, i))
           /\ RealBodyGapUp(b, i, i - 1)
        THEN -100 ELSE 0
  IN [k \in 1..(Len(b.close) - CDLSHOOTINGSTAR_Lookback) |->
        rule(k + CDLSHOOTINGSTAR_Lookback)]

\* The TA-Lib C library generations whose recognizers differ: release 0.4.0,
\* and the releases from 0.6 on, which grade an engulfing or harami whose
\* real bodies match on one end as 80 instead of leaving it out.
Libraries == {"0.4.0", "0.6"}

CDLENGULFING_Lookback == 2

\* Any real body strictly around the one before it, whatever the colours.
INT_CDLENGULFING_anyColour(b, lib) ==
  LET rule(i) ==
        IF RLt(BodyTop(b, i - 1), BodyTop(b, i))
           /\ RLt(BodyBottom(b, i), BodyBottom(b, i - 1))
        THEN CandleColor(b, i) * 100 ELSE 0
  IN [k \in 1..(Len(b.close) - CDLENGULFING_Lookback) |->
        rule(k + CDLENGULFING_Lookback)]

\* Engulfing: the second real body engulfs the first, of the other colour.
INT_CDLENGULFING(b, lib) ==
  LET o(i) == b.open[i]
      c(i) == b.close[i]
      strict(i) ==
        \/ /\ CandleColor(b, i) = 1 /\ CandleColor(b, i - 1) = -1
           /\ RLt(o(i - 1), c(i)) /\ RLt(o(i), c(i - 1))
        \/ /\ CandleColor(b, i) = -1 /\ CandleColor(b, i - 1) = 1
           /\ RLt(c(i - 1), o(i)) /\ RLt(c(i), o(i - 1))
      loose(i) ==
        \/ /\ CandleColor(b, i) = 1 /\ CandleColor(b, i - 1) = -1
           /\ \/ RLe(o(i - 1), c(i)) /\ RLt(o(i), c(i - 1))
              \/ RLt(o(i - 1), c(i)) /\ RLe(o(i), c(i - 1))
        \/ /\ CandleColor(b, i) = -1 /\ CandleColor(b, i - 1) = 1
           /\ \/ RLe(c(i - 1), o(i)) /\ RLt(c(i), o(i - 1))
              \/ RLt(c(i - 1), o(i)) /\ RLe(c(i), o(i - 1))
      rule(i) ==
        IF lib = "0.4.0"
        THEN IF strict(i) THEN CandleColor(b, i) * 100 ELSE 0
        ELSE IF ~loose(i) THEN 0
             ELSE IF o(i) # c(i - 1) /\ c(i) # o(i - 1)
                  THEN CandleColor(b, i) * 100
                  ELSE CandleColor(b, i) * 80
  IN [k \in 1..(Len(b.close) - CDLENGULFING_Lookback) |->
        rule(k + CDLENGULFING_Lookback)]

CDLHARAMI_Lookback == Max(BodyShort.avgPeriod, BodyLong.avgPeriod) + 1

\* Harami: a long real body followed by a short one that it engulfs.
INT_CDLHARAMI(b, lib) ==
  LET longThenShort(i) ==
        /\ RLt(CandleAverage(BodyLong, b, i - 1), RealBody(b, i - 1))
        /\ RLe(RealBody(b, i), CandleAverage(BodyShort, b, i))
      inside(i) ==
        /\ RLt(BodyTop(b, i), BodyTop(b, i - 1))
        /\ RLt(BodyBottom(b, i - 1), BodyBottom(b, i))
      insideOrTouching(i) ==
        /\ RLe(BodyTop(b, i), BodyTop(b, i - 1))
        /\ RLe(BodyBottom(b, i - 1), BodyBottom(b, i))
      rule(i) ==
        IF ~longThenShort(i) THEN 0
        ELSE IF inside(i) THEN (-CandleColor(b, i - 1)) * 100
        ELSE IF lib # "0.4.0" /\ insideOrTouching(i)
             THEN (-CandleColor(b, i - 1)) * 80
        ELSE 0
  IN [k \in 1..(Len(b.close) - CDLHARAMI_Lookback) |->
        rule(k + CDLHARAMI_Lookback)]

CDLSTAR_Lookback == Max(BodyShort.avgPeriod, BodyLong.avgPeriod) + 2

\* Morning star: long black candle, short candle gapping down, white candle
\* longer than short closing well within the first real body.
INT_CDLMORNINGSTAR(b, optInPenetration) ==
  LET rule(i) ==
        IF /\ RLt(CandleAverage(BodyLong, b, i - 2), RealBody(b, i - 2))
           /\ CandleColor(b, i - 2) = -1
           /\ RLe(RealBody(b, i - 1), CandleAverage(BodyShort, b, i - 1))
           /\ RealBodyGapDown(b, i - 1, i - 2)
           /\ RLt(CandleAverage(BodyShort, b, i), RealBody(b, i))
           /\ CandleColor(b, i) = 1
           /\ RLt(RAdd(b.close[i - 2], RMul(RealBody(b, i - 2), optInPenetration)),
                  b.close[i])
        THEN 100 ELSE 0
  IN [k \in 1..(Len(b.close) - CDLSTAR_Lookback) |->
        rule(k + CDLSTAR_Lookback)]

\* Evening star: long white candle, short candle gapping up, black candle
\* longer than short closing well within the first real body.
INT_CDLEVENINGSTAR(b, optInPenetration) ==
  LET rule(i) ==
        IF /\ RLt(CandleAverage(BodyLong, b, i - 2), RealBody(b, i - 2))
           /\ CandleColor(b, i - 2) = 1
           /\ RLe(RealBody(b, i - 1), CandleAverage(BodyShort, b, i - 1))
           /\ RealBodyGapUp(b, i - 1, i - 2)
           /\ RLt(CandleAverage(BodyShort, b, i), RealBody(b, i))
           /\ CandleColor(b, i) = -1
           /\ RLt(b.close[i],
                  RSub(b.close[i - 2], RMul(RealBody(b, i - 2), optInPenetration)))
        THEN -100 ELSE 0
  IN [k \in 1..(Len(b.close) - CDLSTAR_Lookback) |->
        rule(k + CDLSTAR_Lookback)]

\* The binding's wrapper of a recognizer: length check, then the routine's
\* output behind lookback zeros.
CdlCall(open, high, low, close, lookback, out) ==
  Checked(<<open, high, low, close>>, Ok(PaddedInt(Len(open), lookback, out)))

talib_CDLDOJI(open, high, low, close) ==
  CdlCall(open, high, low, close, CDLDOJI_Lookback,
          INT_CDLDOJI(Bars(open, high, low, close)))

talib_CDLHAMMER(open, high, low, close) ==
  CdlCall(open, high, low, close, CDLHAMMER_Lookback,
          INT_CDLHAMMER(Bars(open, high, low, close)))

talib_CDLSHOOTINGSTAR(open, high, low, close) ==
  CdlCall(open, high, low, close, CDLSHOOTINGSTAR_Lookback,
          INT_CDLSHOOTINGSTAR(Bars(open, high, low, close)))

talib_CDLENGULFING(open, high, low, close, lib) ==
  CdlCall(open, high, low, close, CDLENGULFING_Lookback,
          INT_CDLENGULFING(Bars(open, high, low, close), lib))

talib_CDLHARAMI(open, high, low, close, lib) ==
  CdlCall(open, high, low, close, CDLHARAMI_Lookback,
          INT_CDLHARAMI(Bars(open, high, low, close), lib))

talib_CDLMORNINGSTAR(open, high, low, close, penetration) ==
  Checked(<<open, high, low, close>>,
          IF ~ValidFactor(penetration) THEN Raise("TA_BAD_PARAM")
          ELSE Ok(PaddedInt(Len(open), CDLSTAR_Lookback,
                            INT_CDLMORNINGSTAR(Bars(open, high, low, close), penetration))))

talib_CDLEVENINGSTAR(open, high, low, close, penetration) ==
  Checked(<<open, high, low, close>>,
          IF ~ValidFactor(penetration) THEN Raise("TA_BAD_PARAM")
          ELSE Ok(PaddedInt(Len(open), CDLSTAR_Lookback,
                            INT_CDLEVENINGSTAR(Bars(open, high, low, close), penetration))))

doji_pattern(open_prices, high_prices, low_prices, close_prices) ==
  talib_CDLDOJI(NpArray(open_prices), NpArray(high_prices), NpArray(low_prices), NpArray(close_prices))

engulfing_pattern(open_prices, high_prices, low_prices, close_prices, lib) ==
  talib_CDLENGULFING(NpArray(open_prices), NpArray(high_prices), NpArray(low_prices), NpArray(close_prices), lib)

hammer_pattern(open_prices, high_prices, low_prices, close_prices) ==
  talib_CDLHAMMER(NpArray(open_prices), NpArray(high_prices), NpArray(low_prices), NpArray(close_prices))

shooting_star_pattern(open_prices, high_prices, low_prices, close_prices) ==
  talib_CDLSHOOTINGSTAR(NpArray(open_prices), NpArray(high_prices), NpArray(low_prices), NpArray(close_prices))

morning_star_pattern(open_prices, high_prices, low_prices, close_prices, penetration) ==
  talib_CDLMORNINGSTAR(NpArray(open_prices), NpArray(high_prices), NpArray(low_prices), NpArray(close_prices), penetration)

evening_star_pattern(open_prices, high_prices, low_prices, close_prices, penetration) ==
  talib_CDLEVENINGSTAR(NpArray(open_prices), NpArray(high_prices), NpArray(low_prices), NpArray(close_prices), penetration)

harami_pattern(open_prices, high_prices, low_prices, close_prices, lib) ==
  talib_CDLHARAMI(NpArray(open_prices), NpArray(high_prices), NpArray(low_prices), NpArray(close_prices), lib)

(***************************************************************************)
(* TA_CCI: (typical price - its average over the period) divided by 0.015  *)
(* times the mean absolute deviation of the period's typical prices, 0.0   *)
(* when the numerator or the deviation is zero.                            *)
(***************************************************************************)
INT_CCI(inHigh, inLow, inClose, period) ==
  LET circBuffer == [i \in 1..Len(inHigh) |->
                       RDiv(RAdd(RAdd(inHigh[i], inLow[i]), inClose[i]), R(3))]
  IN [j \in 1..(Len(inHigh) - (period - 1)) |->
        LET today == j + period - 1
            lastValue == circBuffer[today]
            theAverage == RDiv(RunSum(circBuffer, j, today), R(period))
            tempReal2 == RunSum([i \in 1..today |-> RAbs(RSub(circBuffer[i], theAverage))],
                                j, today)
            tempReal == RSub(lastValue, theAverage)
        IN IF tempReal # R(0) /\ tempReal2 # R(0)
           THEN RDiv(tempReal, RMul(Rat(15, 1000), RDiv(tempReal2, R(period))))
           ELSE R(0)]

talib_CCI(high, low, close, timeperiod) ==
  LET optInTimePeriod == Period(timeperiod, 14)
  IN Checked(<<high, low, close>>,
       IF ~ValidPeriod(optInTimePeriod, 2) THEN Raise("TA_BAD_PARAM")
       ELSE Ok(Padded(Len(high), optInTimePeriod - 1,
                      INT_CCI(high, low, close, optInTimePeriod))))

commodity_channel_index(high_prices, low_prices, close_prices, timeperiod) ==
  talib_CCI(NpArray(high_prices), NpArray(low_prices), NpArray(close_prices), timeperiod)

(***************************************************************************)
(* TA_STOCHRSI with the default moving average (fastd_matype = 0, SMA):    *)
(* TA_STOCHF with the RSI as its high, low and close.                      *)
(***************************************************************************)
INT_STOCHF(inHigh, inLow, inClose, fastK_Period, fastD_Period) ==
  LET lookbackFastD == MA_Lookback(fastD_Period)
      lookbackTotal == (fastK_Period - 1) + lookbackFastD
      tempBuffer == INT_FASTK(inHigh, inLow, inClose, fastK_Period)
      fastD == INT_MA(tempBuffer, fastD_Period)
  IN IF lookbackTotal > Len(inClose) - 1 THEN [fastk |-> <<>>, fastd |-> <<>>]
     ELSE [fastk |-> [i \in 1..Len(fastD) |-> tempBuffer[lookbackFastD + i]],
           fastd |-> fastD]

\* TA_STOCHF given one buffer as its high, its low and its close.
StochOf(tempRSIBuffer, fastK_Period, fastD_Period) ==
  INT_STOCHF(tempRSIBuffer, tempRSIBuffer, tempRSIBuffer, fastK_Period, fastD_Period)

INT_STOCHRSI(inReal, period, fastK_Period, fastD_Period) ==
  StochOf(INT_RSI(inReal, period), fastK_Period, fastD_Period)

\* The two output arrays of the binding, out written at offset lookback.
StochRsiArrays(length, lookback, out) ==
  [fastk |-> Padded(length, lookback, out.fastk),
   fastd |-> Padded(length, lookback, out.fastd)]

talib_STOCHRSI(real, timeperiod0, fastk_period0, fastd_period0) ==
  LET timeperiod == Period(timeperiod0, 14)
      fastk_period == Period(fastk_period0, 5)
      fastd_period == Period(fastd_period0, 3)
      lookback == timeperiod + (fastk_period - 1) + MA_Lookback(fastd_period)
  IN IF ~ValidPeriod(timeperiod, 2) \/ ~ValidPeriod(fastk_period, 1)
        \/ ~ValidPeriod(fastd_period, 1)
     THEN Raise("TA_BAD_PARAM")
     ELSE Ok(StochRsiArrays(Len(real), lookback,
                            INT_STOCHRSI(real, timeperiod, fastk_period,
                                         fastd_period)))

stochastic_rsi(prices, timeperiod, fastk_period, fastd_period) ==
  talib_STOCHRSI(NpArray(prices), timeperiod, fastk_period, fastd_period)

(***************************************************************************)
(* TA_ADX: Wilder's directional movement.  The first period-1 bars after   *)
(* bar 0 sum the directional movements and the true range, the next        *)
(* period bars smooth them and sum the DX, whose mean is the first ADX;    *)
(* every later bar smooths the ADX with its DX.                            *)
(***************************************************************************)
\* A running sum before a bar is added: less its period-th part on the
\* bars that smooth, as it is on the bars that sum.
AdxDecay(x, period, smooth) == IF smooth THEN RSub(x, RDiv(x, R(period))) ELSE x

\* The directional movement of a bar (the larger of diffP and diffM, when
\* positive) and its true range added to the running sums.
AdxAdd(minusDM, plusDM, tr, diffP, diffM, trueRange) ==
  [minusDM |-> IF RLt(R(0), diffM) /\ RLt(diffP, diffM) THEN RAdd(minusDM, diffM)
               ELSE minusDM,
   plusDM |-> IF ~(RLt(R(0), diffM) /\ RLt(diffP, diffM))
                 /\ RLt(R(0), diffP) /\ RLt(diffM, diffP)
              THEN RAdd(plusDM, diffP) ELSE plusDM,
   tr |-> RAdd(tr, trueRange)]

\* State of the routine after bar today (TLA+ index) has been taken in.
AdxBar(inHigh, inLow, inClose, today, period, st, smooth) ==
  AdxAdd(AdxDecay(st.minusDM, period, smooth), AdxDecay(st.plusDM, period, smooth),
         AdxDecay(st.tr, period, smooth),
         RSub(inHigh[today], inHigh[today - 1]),
         RSub(inLow[today - 1], inLow[today]),
         RMax(RSub(inHigh[today], inLow[today]),
              RMax(RAbs(RSub(inHigh[today], inClose[today - 1])),
                   RAbs(RSub(inLow[today], inClose[today - 1])))))

NoDX == [has |-> FALSE, val |-> R(0)]

\* 100 * |minusDI - plusDI| / (minusDI + plusDI); there is none when the
\* sum of the indicators is zero.
AdxIndex(minusDI, plusDI) ==
  IF TA_IS_ZERO(RAdd(minusDI, plusDI)) THEN NoDX
  ELSE [has |-> TRUE,
        val |-> RMul(R(100), RDiv(RAbs(RSub(minusDI, plusDI)),
                                  RAdd(minusDI, plusDI)))]

\* The DX of a state; there is none when the true range is zero.
AdxDX(st) ==
  IF TA_IS_ZERO(st.tr) THEN NoDX
  ELSE AdxIndex(RMul(R(100), RDiv(st.minusDM, st.tr)),
                RMul(R(100), RDiv(st.plusDM, st.tr)))

\* The sums of the first period-1 bars after bar 0.
RECURSIVE AdxSeed(_, _, _, _, _, _)
AdxSeed(inHigh, inLow, inClose, today, period, st) ==
  IF today > period THEN st
  ELSE AdxSeed(inHigh, inLow, inClose, today + 1, period,
               AdxBar(inHigh, inLow, inClose, today, period, st, FALSE))

AdxAddDX(sumDX, dx) == IF dx.has THEN RAdd(sumDX, dx.val) ELSE sumDX

\* The next period bars: the smoothed state and the sum of the DX.
RECURSIVE AdxSum(_, _, _, _, _, _, _)
AdxSum(inHigh, inLow, inClose, today, period, st, sumDX) ==
  IF today > 2 * period THEN [st |-> st, sumDX |-> sumDX]
  ELSE LET next == AdxBar(inHigh, inLow, inClose, today, period, st, TRUE)
       IN AdxSum(inHigh, inLow, inClose, today + 1, period, next,
                 AdxAddDX(sumDX, AdxDX(next)))

\* The ADX of a bar from the one before it and the bar's DX.
AdxSmooth(prevADX, dx, period) ==
  IF dx.has THEN RDiv(RAdd(RMul(prevADX, R(period - 1)), dx.val), R(period))
  ELSE prevADX

\* The later bars; the last element of acc is the ADX of the bar before.
RECURSIVE AdxRun(_, _, _, _, _, _, _)
AdxRun(inHigh, inLow, inClose, today, period, st, acc) ==
  IF today > Len(inHigh) THEN acc
  ELSE LET next == AdxBar(inHigh, inLow, inClose, today, period, st, TRUE)
       IN AdxRun(inHigh, inLow, inClose, today + 1, period, next,
                 Append(acc, AdxSmooth(acc[Len(acc)], AdxDX(next), period)))

\* The outputs, the first of them the mean of the period DX in sum.
AdxFrom(inHigh, inLow, inClose, period, sum) ==
  AdxRun(inHigh, inLow, inClose, 2 * period + 1, period, sum.st,
         <<RDiv(sum.sumDX, R(period))>>)

INT_ADX(inHigh, inLow, inClose, period) ==
  IF 2 * period - 1 > Len(inHigh) - 1 THEN <<>>
  ELSE AdxFrom(inHigh, inLow, inClose, period,
               AdxSum(inHigh, inLow, inClose, period + 1, period,
                      AdxSeed(inHigh, inLow, inClose, 2, period,
                              [minusDM |-> R(0), plusDM |-> R(0), tr |-> R(0)]),
                      R(0)))

talib_ADX(high, low, close, timeperiod) ==
  LET optInTimePeriod == Period(timeperiod, 14)
  IN Checked(<<high, low, close>>,
       IF ~ValidPeriod(optInTimePeriod, 2) THEN Raise("TA_BAD_PARAM")
       ELSE Ok(Padded(Len(high), 2 * optInTimePeriod - 1,
                      INT_ADX(high, low, close, optInTimePeriod))))

average_directional_index(high_prices, low_prices, close_prices, timeperiod) ==
  talib_ADX(NpArray(high_prices), NpArray(low_prices), NpArray(close_prices), timeperiod)

(***************************************************************************)
(* TA_KAMA: the average moves towards the price by the square of           *)
(* ER * (2/3 - 2/31) + 2/31, where the efficiency ratio ER is the net      *)
(* change over the period divided by the sum of the absolute changes.      *)
(***************************************************************************)
\* Sum of |inReal[i] - inReal[i + 1]| for i = lo..hi (TLA+ indices).
RECURSIVE SumROC(_, _, _)
SumROC(inReal, lo, hi) ==
  IF hi < lo THEN R(0)
  ELSE RAdd(SumROC(inReal, lo, hi - 1), RAbs(RSub(inReal[hi], inReal[hi + 1])))

\* The smoothing constant of a bar.
KamaConstant(sumROC1, periodROC) ==
  LET constMax == Rat(2, 31)
      constDiff == RSub(Rat(2, 3), constMax)
      er == IF RLe(sumROC1, periodROC) \/ TA_IS_ZERO(sumROC1) THEN R(1)
            ELSE RAbs(RDiv(periodROC, sumROC1))
      tempReal == RAdd(RMul(er, constDiff), constMax)
  IN RMul(tempReal, tempReal)

RECURSIVE KamaRun(_, _, _, _, _, _)
KamaRun(inReal, period, today, sumROC1, prevKAMA, acc) ==
  IF today > Len(inReal) THEN acc
  ELSE LET tempReal == inReal[today]
           tempReal2 == inReal[today - period]
           trailingValue == inReal[today - period - 1]
           periodROC == RSub(tempReal, tempReal2)
           sum == RAdd(RSub(sumROC1, RAbs(RSub(trailingValue, tempReal2))),
                       RAbs(RSub(tempReal, inReal[today - 1])))
           kama == RAdd(RMul(RSub(tempReal, prevKAMA), KamaConstant(sum, periodROC)),
                        prevKAMA)
       IN KamaRun(inReal, period, today + 1, sum, kama, Append(acc, kama))

INT_KAMA(inReal, period) ==
  LET sumROC1 == SumROC(inReal, 1, period)
      today == period + 1
      periodROC == RSub(inReal[today], inReal[1])
      prevKAMA == RAdd(RMul(RSub(inReal[today], inReal[today - 1]),
                            KamaConstant(sumROC1, periodROC)),
                       inReal[today - 1])
  IN IF period > Len(inReal) - 1 THEN <<>>
     ELSE KamaRun(inReal, period, today + 1, sumROC1, prevKAMA, <<prevKAMA>>)

talib_KAMA(real, timeperiod) ==
  LET optInTimePeriod == Period(timeperiod, 30)
  IN IF ~ValidPeriod(optInTimePeriod, 2) THEN Raise("TA_BAD_PARAM")
     ELSE Ok(Padded(Len(real), optInTimePeriod, INT_KAMA(real, optInTimePeriod)))

kaufman_adaptive_moving_average(prices, timeperiod) ==
  talib_KAMA(NpArray(prices), timeperiod)

(***************************************************************************)
(* TA_STDDEV: sqrt(mean of squares - square of mean) * nbdev, 0.0 when the *)
(* difference is zero or negative.                                         *)
(***************************************************************************)
\* TA_INT_VAR: the variance of every window of period values.
INT_VAR(inReal, period) ==
  IF period - 1 > Len(inReal) - 1 THEN <<>>
  ELSE [j \in 1..(Len(inReal) - period + 1) |->
          LET meanValue1 == RDiv(RunSum(inReal, j, j + period - 1), R(period))
              meanValue2 == RDiv(RunSum(Squares(inReal), j, j + period - 1), R(period))
          IN RSub(meanValue2, RMul(meanValue1, meanValue1))]

INT_STDDEV(inReal, period, nbDev) ==
  LET var == INT_VAR(inReal, period)
  IN [j \in 1..Len(var) |->
        IF ~TA_IS_ZERO_OR_NEG(var[j]) THEN SMul(RSqrt(var[j]), nbDev) ELSE R(0)]

talib_STDDEV(real, timeperiod, nbdev) ==
  LET optInTimePeriod == Period(timeperiod, 5)
  IN IF ~ValidPeriod(optInTimePeriod, 2) THEN Raise("TA_BAD_PARAM")
     ELSE Ok(Padded(Len(real), optInTimePeriod - 1,
                    INT_STDDEV(real, optInTimePeriod, nbdev)))

standard_deviation(prices, timeperiod, nbdev) ==
  talib_STDDEV(NpArray(prices), timeperiod, R(nbdev))

(***************************************************************************)
(* TA_ADOSC: the fast EMA minus the slow EMA of the accumulation/          *)
(* distribution line, both EMAs seeded with the line's first value.        *)
(***************************************************************************)
RECURSIVE AdoscRun(_, _, _, _, _, _, _)
AdoscRun(ad, fastk, slowk, today, fastEMA, slowEMA, acc) ==
  IF today > Len(ad) THEN acc
  ELSE LET fast == RAdd(RMul(fastk, ad[today]), RMul(RSub(R(1), fastk), fastEMA))
           slow == RAdd(RMul(slowk, ad[today]), RMul(RSub(R(1), slowk), slowEMA))
       IN AdoscRun(ad, fastk, slowk, today + 1, fast, slow,
                   Append(acc, RSub(fast, slow)))

INT_ADOSC(inHigh, inLow, inClose, inVolume, fastPeriod, slowPeriod) ==
  LET slowestPeriod == IF fastPeriod < slowPeriod THEN slowPeriod ELSE fastPeriod
      lookbackTotal == slowestPeriod - 1
      ad == INT_AD(inHigh, inLow, inClose, inVolume)
      all == AdoscRun(ad, PER_TO_K(fastPeriod), PER_TO_K(slowPeriod), 2, ad[1], ad[1],
                      <<>>)
  IN IF lookbackTotal > Len(inHigh) - 1 THEN <<>>
     ELSE [j \in 1..(Len(inHigh) - lookbackTotal) |-> all[j + lookbackTotal - 1]]

talib_ADOSC(high, low, close, volume, fastperiod0, slowperiod0) ==
  LET fastperiod == Period(fastperiod0, 3)
      slowperiod == Period(slowperiod0, 10)
  IN Checked(<<high, low, close, volume>>,
       IF ~ValidPeriod(fastperiod, 2) \/ ~ValidPeriod(slowperiod, 2)
       THEN Raise("TA_BAD_PARAM")
       ELSE Ok(Padded(Len(high), Max(fastperiod, slowperiod) - 1,
                      INT_ADOSC(high, low, close, volume, fastperiod, slowperiod))))

chaikin_ad_oscillator(high_prices, low_prices, close_prices, volume, fastperiod, slowperiod) ==
  talib_ADOSC(NpArray(high_prices), NpArray(low_prices), NpArray(close_prices),
              NpArray(volume), fastperiod, slowperiod)

(***************************************************************************)
(* TA_PPO with the default moving average (matype = 0, SMA):               *)
(* ((fast MA - slow MA) / slow MA) * 100, 0.0 where the slow MA is zero;   *)
(* the periods are swapped when the slow one is the shorter.               *)
(***************************************************************************)
INT_PO(inReal, fastPeriod0, slowPeriod0) ==
  LET slowPeriod == Max(fastPeriod0, slowPeriod0)
      fastPeriod == Min(fastPeriod0, slowPeriod0)
      tempBuffer == INT_MA(inReal, fastPeriod)
      slowMA == INT_MA(inReal, slowPeriod)
      tempInteger == slowPeriod - fastPeriod
  IN [i \in 1..Len(slowMA) |->
        LET tempReal == slowMA[i]
        IN IF ~TA_IS_ZERO(tempReal)
           THEN RMul(RDiv(RSub(tempBuffer[i + tempInteger], tempReal), tempReal), R(100))
           ELSE R(0)]

talib_PPO(real, fastperiod0, slowperiod0) ==
  LET fastperiod == Period(fastperiod0, 12)
      slowperiod == Period(slowperiod0, 26)
  IN IF ~ValidPeriod(fastperiod, 2) \/ ~ValidPeriod(slowperiod, 2)
     THEN Raise("TA_BAD_PARAM")
     ELSE Ok(Padded(Len(real), Max(fastperiod, slowperiod) - 1,
                    INT_PO(real, fastperiod, slowperiod)))

percentage_price_oscillator(prices, fastperiod, slowperiod) ==
  talib_PPO(NpArray(prices), fastperiod, slowperiod)

(***************************************************************************)
(* TA_TRIX: the one-bar rate of change of the EMA of the EMA of the EMA.   *)
(***************************************************************************)
INT_TRIX(inReal, period) ==
  LET k == PER_TO_K(period)
      firstEMA == INT_EMA(inReal, 0, period, k).vals
      secondEMA == INT_EMA(firstEMA, 0, period, k).vals
      thirdEMA == INT_EMA(secondEMA, 0, period, k).vals
  IN INT_ROC(thirdEMA, 1)

talib_TRIX(real, timeperiod) ==
  LET optInTimePeriod == Period(timeperiod, 30)
  IN IF ~ValidPeriod(optInTimePeriod, 1) THEN Raise("TA_BAD_PARAM")
     ELSE Ok(Padded(Len(real), 3 * (optInTimePeriod - 1) + 1,
                    INT_TRIX(real, optInTimePeriod)))

trix(prices, timeperiod) == talib_TRIX(NpArray(prices), timeperiod)

(***************************************************************************)
(* Inputs.                                                                 *)
(***************************************************************************)
SeqsUpTo(n, S) == UNION {[1..k -> S] : k \in 0..n}

\* The values the series are drawn from.
PriceVals == {0, 1, 2}

VolumeVals == {-1, 0, 1, 2}

HighVals == {1, 2}

LowVals == {0, 1}

CloseVals == {0, 1, 2}

Prices == SeqsUpTo(MaxLen, PriceVals)

\* Series that rise, fall or stay level over more bars than MaxLen, for the
\* smoothed outputs of relative_strength_index after the first.
TrendPrices ==
  {<<0, 1, 2, 3, 4>>, <<0, 2, 3, 5, 9>>, <<4, 3, 2, 1, 0>>, <<9, 5, 3, 2, 0>>,
   <<1, 1, 1, 1, 1>>, <<0, 1, 1, 2, 2>>}

\* Series long enough for a signal line of macd that is seeded on several
\* values and then smoothed.
MacdPrices == {<<1, 2, 0, 2, 1>>, <<0, 1, 2, 0, 2, 1>>}

Periods == 0..MaxPeriod

Devs == {-1, 0, 1, 2}

SlowPeriods == {0, 1, 2}

\* Series whose lengths disagree (their values are never read).
Fill(n) == [i \in 1..n |-> 1]

Misaligned(k, n) ==
  {a \in [1..k -> {Fill(m) : m \in 0..n}] : ~SameLength(a)}

\* Series of one common length, as a market-data source delivers them.
CloseVolume ==
  UNION {{<<c, v>> : c \in [1..n -> PriceVals], v \in [1..n -> VolumeVals]} :
         n \in 0..MaxBars}

HighLowClose ==
  UNION {{<<h, l, c>> : h \in [1..n -> HighVals], l \in [1..n -> LowVals],
                        c \in [1..n -> CloseVals]} : n \in 0..MaxBars3}

\* Bars <<high, low, close, volume>> of the range and volume-flow
\* indicators: a close in the middle, at the high and (zero) at the low of
\* the bar, a bar without range, a bar with its high below its low, and a
\* bar with a negative volume.
HlcvBars ==
  {<<2, 0, 1, 1>>, <<2, 0, 2, 2>>, <<2, 0, 0, 1>>, <<1, 1, 1, 1>>, <<1, 2, 1, 1>>,
   <<2, 0, 1, -1>>}

Hlcv ==
  {<<[i \in 1..Len(b) |-> b[i][1]], [i \in 1..Len(b) |-> b[i][2]],
     [i \in 1..Len(b) |-> b[i][3]], [i \in 1..Len(b) |-> b[i][4]]>> :
     b \in SeqsUpTo(MaxBars, HlcvBars)}

HLCVInputs == Hlcv \cup Misaligned(4, 1)

\* High/low bars of parabolic_sar, each <<high, low>>, and its factors.
SarBars == {<<1, 0>>, <<2, 0>>, <<2, 1>>, <<3, 1>>, <<3, 2>>}

HighLow ==
  {<<[i \in 1..Len(b) |-> b[i][1]], [i \in 1..Len(b) |-> b[i][2]]>> :
     b \in SeqsUpTo(MaxSarBars, SarBars)}

Accelerations == {<<-1, 1>>, <<1, 4>>, <<1, 2>>, <<1, 1>>}

Maxima == {<<1, 2>>, <<1, 1>>}

SARInputs == HighLow \cup Misaligned(2, 2)

\* Candles <<open, high, low, close>>: a flat one, a long black and a long
\* white one, a short black one, a white one opening at 3, a hammer-like and
\* a star-like one, a flat one inside the long bodies; for the three-candle
\* recognizers a flat one above.
CandleShapes ==
  {<<1, 1, 1, 1>>, <<6, 6, 2, 2>>, <<2, 6, 2, 6>>, <<4, 4, 3, 3>>, <<3, 5, 3, 5>>,
   <<3, 3, 0, 3>>, <<5, 8, 5, 5>>, <<3, 3, 3, 3>>}

StarShapes == {<<1, 1, 1, 1>>, <<6, 6, 2, 2>>, <<2, 6, 2, 6>>, <<7, 7, 7, 7>>}

HistoryShapes == {<<1, 1, 1, 1>>, <<4, 4, 3, 3>>}

\* A run of equal candles followed by the given last candles, as the four
\* series <<open, high, low, close>>.
CandleSeries(tails) ==
  {LET bars == [i \in 1..n |-> h] \o t
   IN <<[i \in 1..Len(bars) |-> bars[i][1]], [i \in 1..Len(bars) |-> bars[i][2]],
        [i \in 1..Len(bars) |-> bars[i][3]], [i \in 1..Len(bars) |-> bars[i][4]]>> :
     n \in 0..MaxHistory, h \in HistoryShapes, t \in tails}

PatternInputs == CandleSeries(SeqsUpTo(2, CandleShapes)) \cup Misaligned(4, 1)

StarInputs == CandleSeries(SeqsUpTo(3, StarShapes)) \cup Misaligned(4, 1)

Penetrations == {<<-1, 1>>, <<3, 10>>}

OBVInputs == CloseVolume \cup Misaligned(2, MaxBars)

\* Bars <<high, low, close>> of average_directional_index: a rising, a
\* falling, a wide and a flat one.
AdxBars == {<<3, 1, 2>>, <<2, 0, 1>>, <<4, 0, 2>>, <<1, 1, 1>>}

HlcTrend ==
  {<<[i \in 1..Len(b) |-> b[i][1]], [i \in 1..Len(b) |-> b[i][2]],
     [i \in 1..Len(b) |-> b[i][3]]>> : b \in SeqsUpTo(MaxAdxBars, AdxBars)}

ADXInputs == HlcTrend \cup Misaligned(3, 1)

\* The series of kaufman_adaptive_moving_average: the square of the
\* smoothing constant has a denominator of 93^2 times the square of the
\* efficiency ratio's, so that the second smoothed bar is computed exactly
\* on prices 0 and 1 only.
KamaPrices == SeqsUpTo(3, PriceVals) \cup [1..4 -> {0, 1}]

TrixPrices == SeqsUpTo(MaxTrixLen, {1, 2})

HLCInputs == HighLowClose \cup Misaligned(3, MaxBars3)

(***************************************************************************)
(* The server.  A behaviour is one tool call: Init is the request as it    *)
(* arrives (tool name and arguments), and the tool's action runs the whole *)
(* handler and leaves the returned value or the raised exception.          *)
(***************************************************************************)
Pending == [ok |-> FALSE, err |-> "pending", val |-> <<>>]

Requests ==
  [op : {"simple_moving_average", "exponential_moving_average",
         "double_exponential_moving_average", "triple_exponential_moving_average",
         "momentum", "relative_strength_index", "rate_of_change"},
   args : [prices : Prices, timeperiod : Periods]]
  \cup
  [op : {"relative_strength_index"}, args : [prices : TrendPrices, timeperiod : Periods]]
  \cup
  [op : {"macd"},
   args : [prices : Prices \cup MacdPrices, fastperiod : Periods, slowperiod : Periods,
           signalperiod : Periods]]
  \cup
  [op : {"bollinger_bands"},
   args : [prices : Prices, timeperiod : Periods, nbdevup : Devs, nbdevdn : Devs]]
  \cup
  [op : {"on_balance_volume"},
   args : {[close_prices |-> x[1], volume |-> x[2]] : x \in OBVInputs}]
  \cup
  [op : {"average_true_range", "williams_percent_r"},
   args : {[high_prices |-> x[1], low_prices |-> x[2], close_prices |-> x[3],
            timeperiod |-> p] : x \in HLCInputs, p \in Periods}]
  \cup
  [op : {"stochastic_oscillator"},
   args : {[high_prices |-> x[1], low_prices |-> x[2], close_prices |-> x[3],
            fastk_period |-> p, slowk_period |-> q[1], slowd_period |-> q[2]] :
           x \in HLCInputs, p \in Periods, q \in SlowPeriods \X SlowPeriods}]
  \cup
  [op : {"normalized_average_true_range"},
   args : {[high_prices |-> x[1], low_prices |-> x[2], close_prices |-> x[3],
            timeperiod |-> p] : x \in HLCVInputs, p \in Periods}]
  \cup
  [op : {"accumulation_distribution_line"},
   args : {[high_prices |-> x[1], low_prices |-> x[2], close_prices |-> x[3],
            volume |-> x[4]] : x \in HLCVInputs}]
  \cup
  [op : {"money_flow_index"},
   args : {[high_prices |-> x[1], low_prices |-> x[2], close_prices |-> x[3],
            volume |-> x[4], timeperiod |-> p] : x \in HLCVInputs, p \in Periods}]
  \cup
  [op : {"parabolic_sar"},
   args : {[high_prices |-> x[1], low_prices |-> x[2], acceleration |-> a,
            maximum |-> m] : x \in SARInputs, a \in Accelerations, m \in Maxima}]
  \cup
  [op : {"commodity_channel_index"},
   args : {[high_prices |-> x[1], low_prices |-> x[2], close_prices |-> x[3],
            timeperiod |-> p] : x \in HLCInputs, p \in Periods}]
  \cup
  [op : {"average_directional_index"},
   args : {[high_prices |-> x[1], low_prices |-> x[2], close_prices |-> x[3],
            timeperiod |-> p] : x \in ADXInputs, p \in Periods}]
  \cup
  [op : {"stochastic_rsi"},
   args : [prices : Prices, timeperiod : Periods, fastk_period : SlowPeriods,
           fastd_period : SlowPeriods]]
  \cup
  [op : {"kaufman_adaptive_moving_average"},
   args : [prices : KamaPrices, timeperiod : Periods]]
  \cup
  [op : {"standard_deviation"},
   args : [prices : Prices, timeperiod : Periods, nbdev : Devs]]
  \cup
  [op : {"chaikin_ad_oscillator"},
   args : {[high_prices |-> x[1], low_prices |-> x[2], close_prices |-> x[3],
            volume |-> x[4], fastperiod |-> p[1], slowperiod |-> p[2]] :
           x \in HLCVInputs, p \in Periods \X Periods}]
  \cup
  [op : {"percentage_price_oscillator"},
   args : [prices : Prices, fastperiod : Periods, slowperiod : Periods]]
  \cup
  [op : {"trix"}, args : [prices : TrixPrices, timeperiod : Periods]]
  \cup
  [op : {"doji_pattern", "engulfing_pattern", "hammer_pattern",
         "shooting_star_pattern", "harami_pattern"},
   args : {[open_prices |-> x[1], high_prices |-> x[2], low_prices |-> x[3],
            close_prices |-> x[4]] : x \in PatternInputs}]
  \cup
  [op : {"morning_star_pattern", "evening_star_pattern"},
   args : {[open_prices |-> x[1], high_prices |-> x[2], low_prices |-> x[3],
            close_prices |-> x[4], penetration |-> p] :
           x \in StarInputs, p \in Penetrations}]

\* The worked calls: a level series with a last step up under a 5-bar
\* average, and the rising series 1..14 and 1..15 under a 14-bar RSI.
SmaScenario ==
  {[op |-> "simple_moving_average",
    args |-> [prices |-> <<10, 10, 10, 10, 10, 10, 10, 10, 10, 10, 11>>,
              timeperiod |-> 5]]}

RsiScenarios ==
  {[op |-> "relative_strength_index",
    args |-> [prices |-> [i \in 1..n |-> i], timeperiod |-> 14]] : n \in {14, 15}}

Init ==
  /\ pc = "call"
  /\ \E rq \in Requests \cup SmaScenario \cup RsiScenarios : op = rq.op /\ args = rq.args
  /\ result = Pending
  /\ logged = FALSE
  /\ calls = <<>> /\ heap = <<>> /\ used = 0 /\ log = <<>> /\ market = NoMarket

\* An except clause that raises an error of its own in place of the caught one.
Propagated_replaced(r, hasTry) ==
  IF hasTry /\ ~r.ok THEN Raise("tool error") ELSE r

\* What leaves the handler when its body returned or raised r: the bare
\* "raise" of the except clause re-raises the caught exception, and without
\* a try block the exception propagates by itself.
Propagated(r, hasTry) == r

\* The lists emptied by the call.
InputsAfter_consumed(a) ==
  [k \in DOMAIN a |->
     IF k \in {"prices", "open_prices", "high_prices", "low_prices", "close_prices",
                "volume"}
     THEN <<>> ELSE a[k]]

\* The argument lists once the handler has run: np.array copies the values
\* into a new array, TA-Lib reads that array and writes its output into
\* another, and nothing assigns to the lists.
InputsAfter(a) == a

\* The handler returns or raises r; handlers wrapped in
\* "try: ... except Exception as e: logging.error(...); raise" log a raise.
Return(r, hasTry) ==
  /\ pc' = "done"
  /\ result' = Propagated(r, hasTry)
  /\ logged' = (hasTry /\ ~r.ok)
  /\ args' = InputsAfter(args)
  /\ UNCHANGED <<op, calls, heap, used, log, market>>

CallSMA ==
  /\ pc = "call" /\ op = "simple_moving_average"
  /\ \E r \in (IF Len(args.prices) < args.timeperiod
                THEN {simple_moving_average(args.prices, args.timeperiod)}
                ELSE Outcomes(Len(args.prices),
                              simple_moving_average(args.prices, args.timeperiod))) :
       Return(r, TRUE)

CallEMA ==
  /\ pc = "call" /\ op = "exponential_moving_average"
  /\ \E r \in Outcomes(Len(args.prices),
                        exponential_moving_average(args.prices, args.timeperiod)) :
       Return(r, FALSE)

CallDEMA ==
  /\ pc = "call" /\ op = "double_exponential_moving_average"
  /\ \E r \in Outcomes(Len(args.prices),
                        double_exponential_moving_average(args.prices, args.timeperiod)) :
       Return(r, TRUE)

CallTEMA ==
  /\ pc = "call" /\ op = "triple_exponential_moving_average"
  /\ \E r \in Outcomes(Len(args.prices),
                        triple_exponential_moving_average(args.prices, args.timeperiod)) :
       Return(r, TRUE)

CallMOM ==
  /\ pc = "call" /\ op = "momentum"
  /\ \E r \in Outcomes(Len(args.prices), momentum(args.prices, args.timeperiod)) :
       Return(r, TRUE)

CallROC ==
  /\ pc = "call" /\ op = "rate_of_change"
  /\ \E r \in Outcomes(Len(args.prices), rate_of_change(args.prices, args.timeperiod)) :
       Return(r, TRUE)

CallRSI ==
  /\ pc = "call" /\ op = "relative_strength_index"
  /\ \E r \in Outcomes(Len(args.prices),
                        relative_strength_index(args.prices, args.timeperiod)) :
       Return(r, FALSE)

CallMACD ==
  /\ pc = "call" /\ op = "macd"
  /\ \E r \in Outcomes(Len(args.prices),
                        macd(args.prices, args.fastperiod, args.slowperiod,
                             args.signalperiod)) :
       Return(r, FALSE)

CallBBANDS ==
  /\ pc = "call" /\ op = "bollinger_bands"
  /\ \E r \in Outcomes(Len(args.prices),
                        bollinger_bands(args.prices, args.timeperiod, args.nbdevup,
                                        args.nbdevdn)) :
       Return(r, FALSE)

CallOBV ==
  /\ pc = "call" /\ op = "on_balance_volume"
  /\ \E r \in Outcomes(Len(args.close_prices) + Len(args.volume),
                        on_balance_volume(args.close_prices, args.volume)) :
       Return(r, FALSE)

CallATR ==
  /\ pc = "call" /\ op = "average_true_range"
  /\ \E r \in Outcomes(Len(args.high_prices) + Len(args.low_prices)
                          + Len(args.close_prices),
                        average_true_range(args.high_prices, args.low_prices,
                                           args.close_prices, args.timeperiod)) :
       Return(r, FALSE)

CallSTOCH ==
  /\ pc = "call" /\ op = "stochastic_oscillator"
  /\ \E r \in Outcomes(Len(args.high_prices) + Len(args.low_prices)
                          + Len(args.close_prices),
                        stochastic_oscillator(args.high_prices, args.low_prices,
                                              args.close_prices, args.fastk_period,
                                              args.slowk_period, args.slowd_period)) :
       Return(r, FALSE)

CallWILLR ==
  /\ pc = "call" /\ op = "williams_percent_r"
  /\ \E r \in Outcomes(Len(args.high_prices) + Len(args.low_prices)
                          + Len(args.close_prices),
                        williams_percent_r(args.high_prices, args.low_prices,
                                           args.close_prices, args.timeperiod)) :
       Return(r, FALSE)

CallSAR ==
  /\ pc = "call" /\ op = "parabolic_sar"
  /\ \E r \in Outcomes(Len(args.high_prices) + Len(args.low_prices),
                        parabolic_sar(args.high_prices, args.low_prices,
                                      args.acceleration, args.maximum)) :
       Return(r, TRUE)

CallNATR ==
  /\ pc = "call" /\ op = "normalized_average_true_range"
  /\ \E r \in Outcomes(Len(args.high_prices) + Len(args.low_prices)
                          + Len(args.close_prices),
                        normalized_average_true_range(args.high_prices,
                                                      args.low_prices,
                                                      args.close_prices,
                                                      args.timeperiod)) :
       Return(r, TRUE)

CallAD ==
  /\ pc = "call" /\ op = "accumulation_distribution_line"
  /\ \E r \in Outcomes(Len(args.high_prices) + Len(args.low_prices)
                          + Len(args.close_prices) + Len(args.volume),
                        accumulation_distribution_line(args.high_prices,
                                                       args.low_prices,
                                                       args.close_prices,
                                                       args.volume)) :
       Return(r, TRUE)

CallMFI ==
  /\ pc = "call" /\ op = "money_flow_index"
  /\ \E r \in Outcomes(Len(args.high_prices) + Len(args.low_prices)
                          + Len(args.close_prices) + Len(args.volume),
                        money_flow_index(args.high_prices, args.low_prices,
                                         args.close_prices, args.volume,
                                         args.timeperiod)) :
       Return(r, TRUE)

CallCCI ==
  /\ pc = "call" /\ op = "commodity_channel_index"
  /\ \E r \in Outcomes(Len(args.high_prices) + Len(args.low_prices)
                          + Len(args.close_prices),
                        commodity_channel_index(args.high_prices, args.low_prices,
                                                args.close_prices, args.timeperiod)) :
       Return(r, FALSE)

CallSTOCHRSI ==
  /\ pc = "call" /\ op = "stochastic_rsi"
  /\ \E r \in Outcomes(Len(args.prices),
                        stochastic_rsi(args.prices, args.timeperiod,
                                       args.fastk_period, args.fastd_period)) :
       Return(r, TRUE)

CallADX ==
  /\ pc = "call" /\ op = "average_directional_index"
  /\ \E r \in Outcomes(Len(args.high_prices) + Len(args.low_prices)
                          + Len(args.close_prices),
                        average_directional_index(args.high_prices, args.low_prices,
                                                  args.close_prices,
                                                  args.timeperiod)) :
       Return(r, TRUE)

CallKAMA ==
  /\ pc = "call" /\ op = "kaufman_adaptive_moving_average"
  /\ \E r \in Outcomes(Len(args.prices),
                        kaufman_adaptive_moving_average(args.prices,
                                                        args.timeperiod)) :
       Return(r, TRUE)

CallSTDDEV ==
  /\ pc = "call" /\ op = "standard_deviation"
  /\ \E r \in Outcomes(Len(args.prices),
                        standard_deviation(args.prices, args.timeperiod,
                                           args.nbdev)) :
       Return(r, TRUE)

CallADOSC ==
  /\ pc = "call" /\ op = "chaikin_ad_oscillator"
  /\ \E r \in Outcomes(Len(args.high_prices) + Len(args.low_prices)
                          + Len(args.close_prices) + Len(args.volume),
                        chaikin_ad_oscillator(args.high_prices, args.low_prices,
                                              args.close_prices, args.volume,
                                              args.fastperiod, args.slowperiod)) :
       Return(r, TRUE)

CallPPO ==
  /\ pc = "call" /\ op = "percentage_price_oscillator"
  /\ \E r \in Outcomes(Len(args.prices),
                        percentage_price_oscillator(args.prices, args.fastperiod,
                                                    args.slowperiod)) :
       Return(r, TRUE)

CallTRIX ==
  /\ pc = "call" /\ op = "trix"
  /\ \E r \in Outcomes(Len(args.prices), trix(args.prices, args.timeperiod)) :
       Return(r, TRUE)

\* Total length of the four price lists (0 exactly when all are empty).
OhlcLength ==
  Len(args.open_prices) + Len(args.high_prices) + Len(args.low_prices)
    + Len(args.close_prices)

CallDOJI ==
  /\ pc = "call" /\ op = "doji_pattern"
  /\ \E r \in Outcomes(OhlcLength,
                        doji_pattern(args.open_prices, args.high_prices,
                                     args.low_prices, args.close_prices)) :
       Return(r, TRUE)

CallENGULFING ==
  /\ pc = "call" /\ op = "engulfing_pattern"
  /\ \E lib \in Libraries :
       \E r \in Outcomes(OhlcLength,
                         engulfing_pattern(args.open_prices, args.high_prices,
                                           args.low_prices, args.close_prices, lib)) :
         Return(r, TRUE)

CallHAMMER ==
  /\ pc = "call" /\ op = "hammer_pattern"
  /\ \E r \in Outcomes(OhlcLength,
                        hammer_pattern(args.open_prices, args.high_prices,
                                       args.low_prices, args.close_prices)) :
       Return(r, TRUE)

CallSHOOTINGSTAR ==
  /\ pc = "call" /\ op = "shooting_star_pattern"
  /\ \E r \in Outcomes(OhlcLength,
                        shooting_star_pattern(args.open_prices, args.high_prices,
                                              args.low_prices, args.close_prices)) :
       Return(r, TRUE)

CallMORNINGSTAR ==
  /\ pc = "call" /\ op = "morning_star_pattern"
  /\ \E r \in Outcomes(OhlcLength,
                        morning_star_pattern(args.open_prices, args.high_prices,
                                             args.low_prices, args.close_prices,
                                             args.penetration)) :
       Return(r, TRUE)

CallEVENINGSTAR ==
  /\ pc = "call" /\ op = "evening_star_pattern"
  /\ \E r \in Outcomes(OhlcLength,
                        evening_star_pattern(args.open_prices, args.high_prices,
                                             args.low_prices, args.close_prices,
                                             args.penetration)) :
       Return(r, TRUE)

CallHARAMI ==
  /\ pc = "call" /\ op = "harami_pattern"
  /\ \E lib \in Libraries :
       \E r \in Outcomes(OhlcLength,
                         harami_pattern(args.open_prices, args.high_prices,
                                        args.low_prices, args.close_prices, lib)) :
         Return(r, TRUE)

Next ==
  \/ CallSMA
  \/ CallEMA
  \/ CallDEMA
  \/ CallTEMA
  \/ CallMOM
  \/ CallROC
  \/ CallRSI
  \/ CallMACD
  \/ CallBBANDS
  \/ CallOBV
  \/ CallATR
  \/ CallSTOCH
  \/ CallWILLR
  \/ CallNATR
  \/ CallAD
  \/ CallMFI
  \/ CallSAR
  \/ CallCCI
  \/ CallSTOCHRSI
  \/ CallADX
  \/ CallKAMA
  \/ CallSTDDEV
  \/ CallADOSC
  \/ CallPPO
  \/ CallTRIX
  \/ CallDOJI
  \/ CallENGULFING
  \/ CallHAMMER
  \/ CallSHOOTINGSTAR
  \/ CallMORNINGSTAR
  \/ CallEVENINGSTAR
  \/ CallHARAMI

Spec == Init /\ [][Next]_vars

(***************************************************************************)
(* The calls with a non-positive timeperiod, on series of one common       *)
(* length: zero, a negative number, and the smallest 32-bit integer, which *)
(* TA-Lib reads as "use the default period".  An entry point with several  *)
(* periods is called with at least one of them non-positive, the others    *)
(* being 2.                                                                *)
(***************************************************************************)
NonPositivePeriods == {TA_INTEGER_DEFAULT, -1, 0}

\* n periods of which at least one is non-positive.
SomeNonPositive(n) ==
  {q \in [1..n -> NonPositivePeriods \cup {2}] : \E i \in 1..n : q[i] <= 0}

NonPositiveRequests ==
  [op : {"simple_moving_average", "exponential_moving_average",
         "double_exponential_moving_average", "triple_exponential_moving_average",
         "momentum", "relative_strength_index", "rate_of_change"},
   args : [prices : Prices, timeperiod : NonPositivePeriods]]
  \cup
  [op : {"bollinger_bands"},
   args : [prices : Prices, timeperiod : NonPositivePeriods, nbdevup : {2},
           nbdevdn : {2}]]
  \cup
  [op : {"standard_deviation"},
   args : [prices : Prices, timeperiod : NonPositivePeriods, nbdev : {1}]]
  \cup
  [op : {"kaufman_adaptive_moving_average"},
   args : [prices : KamaPrices, timeperiod : NonPositivePeriods]]
  \cup
  [op : {"trix"}, args : [prices : TrixPrices, timeperiod : NonPositivePeriods]]
  \cup
  [op : {"macd"},
   args : {[prices |-> x, fastperiod |-> q[1], slowperiod |-> q[2],
            signalperiod |-> q[3]] : x \in Prices, q \in SomeNonPositive(3)}]
  \cup
  [op : {"stochastic_rsi"},
   args : {[prices |-> x, timeperiod |-> q[1], fastk_period |-> q[2],
            fastd_period |-> q[3]] : x \in Prices, q \in SomeNonPositive(3)}]
  \cup
  [op : {"percentage_price_oscillator"},
   args : {[prices |-> x, fastperiod |-> q[1], slowperiod |-> q[2]] :
           x \in Prices, q \in SomeNonPositive(2)}]
  \cup
  [op : {"average_true_range", "williams_percent_r", "commodity_channel_index"},
   args : {[high_prices |-> x[1], low_prices |-> x[2], close_prices |-> x[3],
            timeperiod |-> p] : x \in HighLowClose, p \in NonPositivePeriods}]
  \cup
  [op : {"average_directional_index"},
   args : {[high_prices |-> x[1], low_prices |-> x[2], close_prices |-> x[3],
            timeperiod |-> p] : x \in HlcTrend, p \in NonPositivePeriods}]
  \cup
  [op : {"stochastic_oscillator"},
   args : {[high_prices |-> x[1], low_prices |-> x[2], close_prices |-> x[3],
            fastk_period |-> q[1], slowk_period |-> q[2], slowd_period |-> q[3]] :
           x \in HighLowClose, q \in SomeNonPositive(3)}]
  \cup
  [op : {"normalized_average_true_range"},
   args : {[high_prices |-> x[1], low_prices |-> x[2], close_prices |-> x[3],
            timeperiod |-> p] : x \in Hlcv, p \in NonPositivePeriods}]
  \cup
  [op : {"money_flow_index"},
   args : {[high_prices |-> x[1], low_prices |-> x[2], close_prices |-> x[3],
            volume |-> x[4], timeperiod |-> p] : x \in Hlcv, p \in NonPositivePeriods}]
  \cup
  [op : {"chaikin_ad_oscillator"},
   args : {[high_prices |-> x[1], low_prices |-> x[2], close_prices |-> x[3],
            volume |-> x[4], fastperiod |-> q[1], slowperiod |-> q[2]] :
           x \in Hlcv, q \in SomeNonPositive(2)}]

InitNonPositive ==
  /\ pc = "call"
  /\ \E rq \in NonPositiveRequests : op = rq.op /\ args = rq.args
  /\ result = Pending
  /\ logged = FALSE
  /\ calls = <<>> /\ heap = <<>> /\ used = 0 /\ log = <<>> /\ market = NoMarket

\* The entry points with a timeperiod-like parameter.
NextTimeperiod ==
  \/ CallSMA
  \/ CallEMA
  \/ CallDEMA
  \/ CallTEMA
  \/ CallMOM
  \/ CallROC
  \/ CallRSI
  \/ CallMACD
  \/ CallBBANDS
  \/ CallATR
  \/ CallSTOCH
  \/ CallWILLR
  \/ CallNATR
  \/ CallMFI
  \/ CallCCI
  \/ CallSTOCHRSI
  \/ CallADX
  \/ CallKAMA
  \/ CallSTDDEV
  \/ CallADOSC
  \/ CallPPO
  \/ CallTRIX

SpecNonPositive == InitNonPositive /\ [][NextTimeperiod]_vars

(***************************************************************************)
(* Several invocations in flight.  Each invocation converts its price list *)
(* into an array of its own (np.array allocates a new array on every       *)
(* call), then computes on that array; the steps of different invocations  *)
(* interleave freely.  heap is the memory the arrays live in, used the     *)
(* number of arrays allocated so far, log the process-wide logger's        *)
(* output (the invocation that wrote each line).                           *)
(***************************************************************************)
ConcurrentPrices == {<<1>>, <<1, 2>>, <<2, 1, 2>>}

ConcurrentRequests ==
  [op : {"simple_moving_average", "exponential_moving_average"},
   args : [prices : ConcurrentPrices, timeperiod : {2, 3}]]

InitConcurrent ==
  /\ pc = "idle" /\ op = "none" /\ args = <<>> /\ result = Pending /\ logged = FALSE
  /\ calls \in [1..MaxCalls ->
                  {[pc |-> "call", op |-> rq.op, args |-> rq.args, close |-> 0,
                    result |-> Pending] : rq \in ConcurrentRequests}]
  /\ heap = [a \in 1..MaxCalls |-> <<>>]
  /\ used = 0
  /\ log = <<>>
  /\ market = NoMarket

\* One array for all invocations.
Allocate_shared(n) == 1

\* np.array(...) returns a newly allocated array: the next free address.
Allocate(n) == n + 1

\* Invocation i runs up to and including close = np.array(prices, ...);
\* simple_moving_average first checks the length and may raise.
Convert(i) ==
  /\ calls[i].pc = "call"
  /\ IF calls[i].op = "simple_moving_average"
        /\ Len(calls[i].args.prices) < calls[i].args.timeperiod
     THEN /\ calls' = [calls EXCEPT ![i].pc = "done",
                                    ![i].result = Propagated(Raise("ValueError"), TRUE)]
          /\ log' = Append(log, i)
          /\ UNCHANGED <<heap, used>>
     ELSE /\ heap' = [heap EXCEPT ![Allocate(used)] = NpArray(calls[i].args.prices)]
          /\ used' = used + 1
          /\ calls' = [calls EXCEPT ![i].pc = "converted", ![i].close = Allocate(used)]
          /\ UNCHANGED log
  /\ UNCHANGED <<pc, op, args, result, logged, market>>

\* Invocation i calls TA-Lib on its array and returns or raises.
Compute(i) ==
  /\ calls[i].pc = "converted"
  /\ LET c == calls[i]
         hasTry == c.op = "simple_moving_average"
         r == IF c.op = "simple_moving_average"
              THEN talib_SMA(heap[c.close], c.args.timeperiod)
              ELSE talib_EMA(heap[c.close], c.args.timeperiod)
     IN /\ calls' = [calls EXCEPT ![i].pc = "done", ![i].result = Propagated(r, hasTry)]
        /\ log' = IF hasTry /\ ~r.ok THEN Append(log, i) ELSE log
  /\ UNCHANGED <<heap, used, pc, op, args, result, logged, market>>

NextConcurrent == \E i \in 1..MaxCalls : Convert(i) \/ Compute(i)

SpecConcurrent == InitConcurrent /\ [][NextConcurrent]_vars

(***************************************************************************)
(* The Yahoo Finance server (yfinance_mcp_server.py).  Each tool asks the  *)
(* yfinance library for data and turns the answer into a dictionary.       *)
(* market is the state of the data source, which changes while calls are   *)
(* in flight:                                                              *)
(*   down     the source cannot be reached, every request to it raises;    *)
(*   failing  the tickers whose requests raise;                            *)
(*   listed   the tickers the source has data for;                         *)
(*   rows     the number of dates the source has for a listed ticker;      *)
(*   version  the yfinance release: an old release answers a download of   *)
(*            one ticker with single-level columns and a calendar request  *)
(*            with a DataFrame, a new release answers with two-level       *)
(*            columns and a dict;                                          *)
(*   cached   the release keeps in a Ticker object what it has fetched for *)
(*            it (the info, the price history with its dividends and       *)
(*            splits) and answers the next read from there; otherwise      *)
(*            every read is a request to the source.                       *)
(* A DataFrame is a record of its index, its column keys (tuples, one      *)
(* component per column level) and the values of every column; a Python    *)
(* dict is a function of its keys.                                         *)
(***************************************************************************)
MaxSymbols == 2

MaxRows == 2

Listing == {"AAPL", "MSFT"}

Symbols == Listing \cup {"aapl"}

\* str.upper(): yfinance upper-cases every ticker it is given.
Upper(s) == IF s = "aapl" THEN "AAPL" ELSE s

PriceFields == <<"Open", "High", "Low", "Close", "Volume">>

FieldNames == {PriceFields[i] : i \in DOMAIN PriceFields}

None == "None"

Markets ==
  [used : {TRUE}, down : BOOLEAN, failing : SUBSET Listing, listed : SUBSET Listing,
   rows : 0..MaxRows, version : {"old", "new"}, cached : BOOLEAN]

\* The value the source holds for a ticker, a field and a date.
SourceValue(t, f, d) ==
  100 * (IF t = "AAPL" THEN 1 ELSE 2) + 10 * (CHOOSE i \in DOMAIN PriceFields : PriceFields[i] = f) + d

DataFrame(index, nlevels, col) ==
  [kind |-> "DataFrame", index |-> index, nlevels |-> nlevels, columns |-> DOMAIN col,
   col |-> col]

Series(index, values) == [kind |-> "Series", index |-> index, values |-> values]

\* DataFrame.empty / Series.empty: no rows or no columns.
Empty(x) ==
  IF x.kind = "Series" THEN x.index = <<>> ELSE x.index = <<>> \/ x.columns = {}

\* data.columns.get_level_values(n) of two-level columns.
get_level_values(frame, n) == {k[n + 1] : k \in frame.columns}

\* data.xs(key, axis=1, level=n) of two-level columns: the columns whose
\* level n is key, with that level dropped; KeyError when there is none.
xs(frame, key, n) ==
  LET sel == {k \in frame.columns : k[n + 1] = key}
      rest == IF n = 1 THEN 1 ELSE 2
  IN IF sel = {} THEN Raise("KeyError")
     ELSE Ok(DataFrame(frame.index, 1,
                       [j \in {<<k[rest]>> : k \in sel} |->
                          frame.col[CHOOSE k \in sel : k[rest] = j[1]]]))

\* data[key]: the column named key of single-level columns (a Series), the
\* columns whose level 0 is key of two-level columns (a DataFrame);
\* KeyError when there is none.
getitem(frame, key) ==
  IF frame.nlevels = 1
  THEN IF <<key>> \in frame.columns
       THEN Ok(Series(frame.index, frame.col[<<key>>]))
       ELSE Raise("KeyError")
  ELSE xs(frame, key, 0)

\* key in data.columns: a key of two-level columns is found by its level 0.
contains(frame, key) == \E k \in frame.columns : k[1] = key

\* x.tolist(): a Series has the method, a DataFrame does not.
tolist(x) == IF x.kind = "Series" THEN Ok(x.values) ELSE Raise("AttributeError")

\* yf.download(symbols, group_by=group_by, ...): one column per ticker with
\* data and price field.  group_by='ticker' puts the ticker on level 0 and
\* the field on level 1, group_by='column' the field on level 0 and the
\* ticker on level 1; the failure of one ticker is swallowed by the library
\* and leaves the ticker out.
yf_download(symbols, group_by, m) ==
  LET asked == {Upper(symbols[i]) : i \in DOMAIN symbols}
      tickers == (asked \cap m.listed) \ m.failing
      index == IF tickers = {} THEN <<>> ELSE [d \in 1..m.rows |-> d]
      column(t, f) == [d \in DOMAIN index |-> SourceValue(t, f, d)]
  IN IF m.down THEN Raise("ConnectionError")
     ELSE IF Cardinality(asked) = 1 /\ m.version = "old"
     THEN Ok(DataFrame(index, 1,
                       [k \in {<<f>> : f \in FieldNames, t \in tickers} |->
                          column(CHOOSE t \in tickers : TRUE, k[1])]))
     ELSE IF group_by = "ticker"
     THEN Ok(DataFrame(index, 2,
                       [k \in {<<t, f>> : t \in tickers, f \in FieldNames} |->
                          column(k[1], k[2])]))
     ELSE Ok(DataFrame(index, 2,
                       [k \in {<<f, t>> : f \in FieldNames, t \in tickers} |->
                          column(k[2], k[1])]))

\* frame[name].tolist() if name in frame.columns else []
ColumnList(frame, name) ==
  IF contains(frame, name)
  THEN LET c == getitem(frame, name) IN IF c.ok THEN tolist(c.val) ELSE c
  ELSE Ok(<<>>)

\* The dictionary built for one symbol: its dates and its five price lists.
SymbolEntry(frame) ==
  LET c == [f \in FieldNames |-> ColumnList(frame, f)]
  IN IF \E f \in FieldNames : ~c[f].ok
     THEN c[CHOOSE f \in FieldNames : ~c[f].ok]
     ELSE Ok([dates |-> frame.index, open |-> c["Open"].val, high |-> c["High"].val,
              low |-> c["Low"].val, close |-> c["Close"].val,
              volume |-> c["Volume"].val])

\* d[k] = v
Put(d, k, v) == [x \in DOMAIN d \cup {k} |-> IF x = k THEN v ELSE d[x]]

\* The loop over the symbols of a request for several symbols, from
\* symbols[i] on, with acc the entries written so far.
RECURSIVE MultipleSymbols(_, _, _, _, _)
MultipleSymbols(data, symbols, group_by, i, acc) ==
  IF i > Len(symbols) THEN Ok(acc)
  ELSE IF symbols[i] \in get_level_values(data, 1)
  THEN LET symbol_data == IF group_by = "ticker" THEN xs(data, symbols[i], 1)
                          ELSE getitem(data, symbols[i])
           entry == SymbolEntry(symbol_data.val)
       IN IF ~symbol_data.ok THEN symbol_data
          ELSE IF ~entry.ok THEN entry
          ELSE MultipleSymbols(data, symbols, group_by, i + 1,
                               Put(acc, symbols[i], entry.val))
  ELSE MultipleSymbols(data, symbols, group_by, i + 1, acc)

\* The body of download_market_data's try block: what it returns or raises
\* (get_level_values(1) of single-level columns raises IndexError).
download_market_data(symbols, group_by, m) ==
  LET data == yf_download(symbols, group_by, m)
      entry == SymbolEntry(data.val)
      entries == IF Len(symbols) = 1
                 THEN IF entry.ok THEN Ok(Put(<<>>, symbols[1], entry.val)) ELSE entry
                 ELSE IF data.val.nlevels = 1 THEN Raise("IndexError")
                 ELSE MultipleSymbols(data.val, symbols, group_by, 1, <<>>)
  IN IF ~data.ok THEN data
     ELSE IF Empty(data.val)
     THEN Ok([error |-> "No data found for the specified symbols"])
     ELSE IF ~entries.ok THEN entries
     ELSE Ok([symbols |-> symbols, period |-> "1mo", interval |-> "1d",
              group_by |-> group_by, data |-> entries.val])

\* Ticker(symbol).info: the quote fields of the ticker, an empty dict for a
\* ticker the source does not know.
Info(symbol, m) ==
  IF m.down \/ Upper(symbol) \in m.failing THEN Raise("HTTPError")
  ELSE IF Upper(symbol) \notin m.listed THEN Ok(<<>>)
  ELSE Ok([k \in {"currentPrice", "previousClose", "open", "longName", "trailingPE",
                  "dividendRate"} |-> SourceValue(Upper(symbol), "Close", 1)])

\* info.get(k)
Get(d, k) == IF k \in DOMAIN d THEN d[k] ELSE None

\* quote.get(k, default)
GetOr(d, k, default) == IF k \in DOMAIN d THEN d[k] ELSE default

\* {name: info.get(keys[name]) for every name}
Section(info, keys) == [name \in DOMAIN keys |-> Get(info, keys[name])]

QuoteKeys ==
  [current_price |-> "currentPrice", previous_close |-> "previousClose", open |-> "open",
   day_low |-> "dayLow", day_high |-> "dayHigh", volume |-> "volume",
   market_cap |-> "marketCap", pe_ratio |-> "trailingPE",
   change |-> "regularMarketChange", change_percent |-> "regularMarketChangePercent"]

\* One pass of the loop of get_multiple_quotes that reads ticker.info from
\* the source: tickers.tickers is keyed by the upper-cased symbols, so
\* another spelling raises KeyError; whatever is raised for the symbol
\* becomes its entry.
Quote(symbols, symbol, m) ==
  LET info == Info(symbol, m)
  IN IF symbol \notin {Upper(symbols[j]) : j \in DOMAIN symbols} THEN [error |-> "KeyError"]
     ELSE IF ~info.ok THEN [error |-> info.err]
     ELSE Section(info.val, QuoteKeys)

\* The source raises on a request about ticker s.
LookupFails(s, m) == m.down \/ Upper(s) \in m.failing

\* What the source did on a request.
Outcome(raises) == IF raises THEN "raised" ELSE "answered"

\* What the source did in a pass of the loop of get_multiple_quotes: a
\* symbol that is not a key of tickers.tickers is not asked for.
QuoteOutcome(symbols, symbol, m) ==
  IF symbol \notin {Upper(symbols[j]) : j \in DOMAIN symbols} THEN "none"
  ELSE Outcome(LookupFails(symbol, m))

\* tickers.tickers holds one Ticker per symbol, so a symbol that is asked
\* for twice is read from the same Ticker: a release that keeps the info
\* has it once a pass for the symbol has been answered (the entry of the
\* symbol is a quote).
InfoHeld(symbol, entries, m) ==
  m.cached /\ symbol \in DOMAIN entries /\ "error" \notin DOMAIN entries[symbol]

\* Ticker(symbol).history(...): the price columns and the two action
\* columns of the ticker, an empty frame for an unknown ticker.
History(symbol, m) ==
  LET index == IF Upper(symbol) \in m.listed THEN [d \in 1..m.rows |-> d] ELSE <<>>
  IN IF m.down \/ Upper(symbol) \in m.failing THEN Raise("HTTPError")
     ELSE Ok(DataFrame(index, 1,
                       [k \in {<<f>> : f \in FieldNames \cup {"Dividends", "Stock Splits"}} |->
                          [d \in DOMAIN index |->
                             IF k[1] \in FieldNames THEN SourceValue(Upper(symbol), k[1], d)
                             ELSE 0]]))

\* The body of get_stock_history's try block.
get_stock_history(symbol, m) ==
  LET hist == History(symbol, m)
      column(f) == getitem(hist.val, f).val.values
      prices == [dates |-> hist.val.index, open |-> column("Open"), high |-> column("High"),
                 low |-> column("Low"), close |-> column("Close"),
                 volume |-> column("Volume")]
      dividends == IF contains(hist.val, "Dividends")
                   THEN Put(prices, "dividends", column("Dividends")) ELSE prices
      splits == IF contains(hist.val, "Stock Splits")
                THEN Put(dividends, "stock_splits", column("Stock Splits")) ELSE dividends
  IN IF ~hist.ok THEN hist
     ELSE IF Empty(hist.val) THEN Ok([error |-> "No data found for symbol"])
     ELSE Ok([symbol |-> symbol, period |-> "1mo", interval |-> "1d", data |-> splits,
              count |-> Len(hist.val.index)])

BasicInfoKeys ==
  [longName |-> "longName", shortName |-> "shortName", sector |-> "sector",
   industry |-> "industry", country |-> "country", website |-> "website",
   business_summary |-> "longBusinessSummary"]

MarketDataKeys ==
  [current_price |-> "currentPrice", previous_close |-> "previousClose", open |-> "open",
   day_low |-> "dayLow", day_high |-> "dayHigh", fifty_two_week_low |-> "fiftyTwoWeekLow",
   fifty_two_week_high |-> "fiftyTwoWeekHigh", volume |-> "volume",
   average_volume |-> "averageVolume", market_cap |-> "marketCap",
   shares_outstanding |-> "sharesOutstanding", float_shares |-> "floatShares"]

ValuationKeys ==
  [pe_ratio |-> "trailingPE", forward_pe |-> "forwardPE", price_to_book |-> "priceToBook",
   price_to_sales |-> "priceToSalesTrailing12Months",
   enterprise_value |-> "enterpriseValue", profit_margins |-> "profitMargins",
   return_on_equity |-> "returnOnEquity"]

DividendKeys ==
  [dividend_rate |-> "dividendRate", dividend_yield |-> "dividendYield",
   payout_ratio |-> "payoutRatio", ex_dividend_date |-> "exDividendDate"]

\* The body of get_stock_info's try block.
get_stock_info(symbol, m) ==
  LET info == Info(symbol, m)
  IN IF ~info.ok THEN info
     ELSE IF DOMAIN info.val = {} THEN Ok([error |-> "No information found for symbol"])
     ELSE Ok([symbol |-> symbol,
              basic_info |-> Section(info.val, BasicInfoKeys),
              market_data |-> Section(info.val, MarketDataKeys),
              valuation_metrics |-> Section(info.val, ValuationKeys),
              dividend_info |-> Section(info.val, DividendKeys)])

FinancialTypes == {"financials", "balance_sheet", "cashflow", "income"}

\* A statement of the ticker (yearly or quarterly): one column per period,
\* one row per item; empty for an unknown ticker.
Statement(symbol, m) ==
  IF m.down \/ Upper(symbol) \in m.failing THEN Raise("HTTPError")
  ELSE IF Upper(symbol) \notin m.listed \/ m.rows = 0 THEN Ok(<<>>)
  ELSE Ok([periods |-> [d \in 1..m.rows |-> d],
           data |-> [item \in {"Total Revenue"} |->
                       [d \in 1..m.rows |-> SourceValue(Upper(symbol), "Close", d)]]])

\* What get_financials returns once the source has answered both of its
\* requests: an empty statement stays {}.
get_financials(symbol, financial_type, quarterly, yearly) ==
  Ok([symbol |-> symbol, financial_type |-> financial_type,
      yearly |-> yearly, quarterly |-> quarterly])

\* A dated series of the ticker (dividends, splits).
Actions(symbol, m) ==
  LET index == IF Upper(symbol) \in m.listed THEN [d \in 1..m.rows |-> d] ELSE <<>>
  IN IF m.down \/ Upper(symbol) \in m.failing THEN Raise("HTTPError")
     ELSE Ok(Series(index, [d \in DOMAIN index |-> 1]))

\* What get_dividends_and_splits returns once it has the two series: an
\* empty series stays {}.
get_dividends_and_splits(symbol, dividends, splits) ==
  Ok([symbol |-> symbol,
      dividends |-> IF ~Empty(dividends)
                    THEN [dates |-> dividends.index, amounts |-> tolist(dividends).val]
                    ELSE <<>>,
      splits |-> IF ~Empty(splits)
                 THEN [dates |-> splits.index, ratios |-> tolist(splits).val]
                 ELSE <<>>])

\* Ticker(symbol).recommendations: None for an unknown ticker, else a frame
\* with one row per date.
Recommendations(symbol, m) ==
  IF m.down \/ Upper(symbol) \in m.failing THEN Raise("HTTPError")
  ELSE IF Upper(symbol) \notin m.listed THEN Ok([kind |-> "NoneType"])
  ELSE Ok(DataFrame([d \in 1..m.rows |-> d], 1,
                    [k \in {<<"Firm">>, <<"To Grade">>} |-> [d \in 1..m.rows |-> "x"]]))

\* row.get(name, '')
RowGet(frame, d, name) == IF <<name>> \in frame.columns THEN frame.col[<<name>>][d] ELSE ""

\* The body of get_recommendations's try block.
get_recommendations(symbol, m) ==
  LET recommendations == Recommendations(symbol, m)
  IN IF ~recommendations.ok THEN recommendations
     ELSE IF recommendations.val.kind = "NoneType"
     THEN Ok([error |-> "No recommendations found"])
     ELSE IF Empty(recommendations.val) THEN Ok([error |-> "No recommendations found"])
     ELSE Ok([symbol |-> symbol,
              recommendations |->
                [d \in DOMAIN recommendations.val.index |->
                   [date |-> recommendations.val.index[d],
                    firm |-> RowGet(recommendations.val, d, "Firm"),
                    to_grade |-> RowGet(recommendations.val, d, "To Grade"),
                    from_grade |-> RowGet(recommendations.val, d, "From Grade"),
                    action |-> RowGet(recommendations.val, d, "Action")]]])

\* quotes[:n] for n >= 0
FirstN(s, n) == [i \in 1..(IF n < Len(s) THEN n ELSE Len(s)) |-> s[i]]

\* The body of search_symbols's try block: yf.Search(query).quotes holds a
\* dict for the listed ticker the query names.
search_symbols(query, max_results, m) ==
  LET quotes == IF Upper(query) \in m.listed
                THEN <<[symbol |-> Upper(query), exchange |-> "NMS"]>> ELSE <<>>
      shown == FirstN(quotes, max_results)
  IN IF m.down THEN Raise("ConnectionError")
     ELSE Ok([query |-> query,
              results |-> [i \in DOMAIN shown |->
                             [symbol |-> GetOr(shown[i], "symbol", ""),
                              shortname |-> GetOr(shown[i], "shortname", ""),
                              longname |-> GetOr(shown[i], "longname", ""),
                              exchange |-> GetOr(shown[i], "exchange", ""),
                              sector |-> GetOr(shown[i], "sector", ""),
                              industry |-> GetOr(shown[i], "industry", ""),
                              market_cap |-> Get(shown[i], "marketCap"),
                              type |-> GetOr(shown[i], "quoteType", "")]]])

\* Ticker(symbol).calendar: a DataFrame in an old release, a dict in a new
\* one; a dict has no attribute "empty".
get_earnings_calendar(symbol, m) ==
  LET index == IF Upper(symbol) \in m.listed THEN [d \in 1..m.rows |-> d] ELSE <<>>
  IN IF m.down \/ Upper(symbol) \in m.failing THEN Raise("HTTPError")
     ELSE IF m.version = "new" THEN Raise("AttributeError")
     ELSE IF index = <<>> THEN Ok([error |-> "No earnings calendar found"])
     ELSE Ok([symbol |-> symbol,
              earnings_calendar |->
                [d \in DOMAIN index |-> [date |-> d, earnings_date |-> d]]])

MarketRequests ==
  [op : {"download_market_data"},
   args : [symbols : {s \in SeqsUpTo(MaxSymbols, Symbols) :
                        Len(s) >= 1 /\ \A i, j \in DOMAIN s : s[i] = s[j] => i = j},
           group_by : {"ticker", "column"}]]
  \cup
  [op : {"get_multiple_quotes"}, args : [symbols : SeqsUpTo(MaxSymbols, Symbols)]]
  \cup
  [op : {"get_stock_history", "get_stock_info", "get_dividends_and_splits",
         "get_recommendations", "get_earnings_calendar"},
   args : [symbol : Symbols]]
  \cup
  [op : {"get_financials"}, args : [symbol : Symbols, financial_type : FinancialTypes]]
  \cup
  [op : {"search_symbols"}, args : [query : Symbols, max_results : 0..1]]

\* The requests of the invocations that run beside the first.
ConcurrentMarketRequests ==
  [op : {"get_stock_info"}, args : [symbol : {"MSFT"}]]
  \cup
  [op : {"get_financials"}, args : [symbol : {"AAPL"}, financial_type : {"financials"}]]

\* An invocation that has arrived: its position in the handler, its request,
\* the handler's local variables, what the source did on each request the
\* handler has made so far, and what the handler returned.
MarketCall(rq) ==
  [pc |-> "call", op |-> rq.op, args |-> rq.args, local |-> <<>>, source |-> <<>>,
   result |-> Pending]

\* MaxCalls invocations have arrived, in any state of the source.
InitMarket ==
  /\ pc = "idle" /\ op = "none" /\ args = <<>> /\ result = Pending /\ logged = FALSE
  /\ \E first \in MarketRequests, others \in [2..MaxCalls -> ConcurrentMarketRequests] :
       calls = [n \in 1..MaxCalls |->
                  MarketCall(IF n = 1 THEN first ELSE others[n])]
  /\ market \in Markets
  /\ heap = <<>> /\ used = 0 /\ log = <<>>

\* An except clause that lets the exception through.
Caught_reraised(r) == r

\* "except Exception as e: logging.error(...); return {"error": str(e)}":
\* what the body raised is returned as a dictionary.
Caught(r) == IF r.ok THEN r ELSE Ok([error |-> r.err])

\* The try block of invocation n returned or raised r, with the local
\* variables local, after the source outcomes source.
ReturnCaught(n, r, local, source) ==
  /\ calls' = [calls EXCEPT ![n].pc = "done", ![n].result = Caught(r),
                            ![n].local = local, ![n].source = source]
  /\ log' = IF r.ok THEN log ELSE Append(log, n)
  /\ UNCHANGED <<pc, op, args, result, logged, heap, used, market>>

\* Invocation n waits for the source again at position at.
Wait(n, at, local, source) ==
  /\ calls' = [calls EXCEPT ![n].pc = at, ![n].local = local, ![n].source = source]
  /\ UNCHANGED <<pc, op, args, result, logged, heap, used, log, market>>

\* The source changes between two requests: it goes down or comes back, a
\* ticker starts or stops failing, is listed or delisted, or the number of
\* dates it has changes by one.  The library release and what it keeps stay.  Changes after
\* the last request of the last invocation are seen by nobody.
SourceChanges ==
  /\ \E n \in DOMAIN calls : calls[n].pc # "done"
  /\ market' \in
       ({[market EXCEPT !.down = ~market.down]}
        \cup {[market EXCEPT !.failing = (market.failing \ {t}) \cup ({t} \ market.failing)] :
                t \in Listing}
        \cup {[market EXCEPT !.listed = (market.listed \ {t}) \cup ({t} \ market.listed)] :
                t \in Listing}
        \cup {[market EXCEPT !.rows = r] :
                r \in {market.rows - 1, market.rows + 1} \cap (0..MaxRows)})
  /\ UNCHANGED <<pc, op, args, result, logged, calls, heap, used, log>>

CallHistory(n) ==
  /\ calls[n].pc = "call" /\ calls[n].op = "get_stock_history"
  /\ ReturnCaught(n, get_stock_history(calls[n].args.symbol, market), <<>>,
                  <<Outcome(LookupFails(calls[n].args.symbol, market))>>)

CallInfo(n) ==
  /\ calls[n].pc = "call" /\ calls[n].op = "get_stock_info"
  /\ ReturnCaught(n, get_stock_info(calls[n].args.symbol, market), <<>>,
                  <<Outcome(LookupFails(calls[n].args.symbol, market))>>)

\* One pass of the loop of get_multiple_quotes, for symbols[i], on the
\* entries written so far; the handler returns after the last pass.  A
\* pass whose Ticker holds the info writes the same quote again and asks
\* nothing; source lists the requests made.
QuotePass(n, i, entries, source) ==
  LET symbols == calls[n].args.symbols
      held == InfoHeld(symbols[i], entries, market)
      lookup == QuoteOutcome(symbols, symbols[i], market)
      written == IF held THEN entries
                 ELSE Put(entries, symbols[i], Quote(symbols, symbols[i], market))
      seen == IF held \/ lookup = "none" THEN source ELSE Append(source, lookup)
  IN IF i = Len(symbols)
     THEN ReturnCaught(n, Ok(written), [i |-> i, result |-> written], seen)
     ELSE Wait(n, "loop", [i |-> i + 1, result |-> written], seen)

\* get_multiple_quotes up to the answer to its first request: yf.Tickers
\* builds the Ticker objects without asking the source.
CallQuotes(n) ==
  /\ calls[n].pc = "call" /\ calls[n].op = "get_multiple_quotes"
  /\ IF calls[n].args.symbols = <<>>
     THEN ReturnCaught(n, Ok(<<>>), <<>>, <<>>)
     ELSE QuotePass(n, 1, <<>>, <<>>)

\* The next pass of the loop of get_multiple_quotes.
NextQuote(n) ==
  /\ calls[n].pc = "loop" /\ calls[n].op = "get_multiple_quotes"
  /\ QuotePass(n, calls[n].local.i, calls[n].local.result, calls[n].source)

CallDownload(n) ==
  /\ calls[n].pc = "call" /\ calls[n].op = "download_market_data"
  /\ ReturnCaught(n, download_market_data(calls[n].args.symbols, calls[n].args.group_by,
                                          market),
                  [data |-> yf_download(calls[n].args.symbols, calls[n].args.group_by,
                                        market)],
                  <<Outcome(market.down)>>)

\* get_financials up to the answer to its first request, the quarterly
\* statement: the statement kind is checked before anything is asked.
CallFinancials(n) ==
  /\ calls[n].pc = "call" /\ calls[n].op = "get_financials"
  /\ LET quarterly == Statement(calls[n].args.symbol, market)
     IN IF calls[n].args.financial_type \notin {"financials", "balance_sheet", "cashflow"}
        THEN ReturnCaught(n, Ok([error |-> "Invalid financial_type"]), <<>>, <<>>)
        ELSE IF ~quarterly.ok THEN ReturnCaught(n, quarterly, <<>>, <<"raised">>)
        ELSE Wait(n, "yearly", [quarterly |-> quarterly.val], <<"answered">>)

\* get_financials from its second request, the yearly statement, on.
ReadYearly(n) ==
  /\ calls[n].pc = "yearly" /\ calls[n].op = "get_financials"
  /\ LET yearly == Statement(calls[n].args.symbol, market)
     IN IF ~yearly.ok
        THEN ReturnCaught(n, yearly, calls[n].local, Append(calls[n].source, "raised"))
        ELSE ReturnCaught(n, get_financials(calls[n].args.symbol,
                                            calls[n].args.financial_type,
                                            calls[n].local.quarterly, yearly.val),
                          calls[n].local, Append(calls[n].source, "answered"))

\* get_dividends_and_splits up to the answer to its first request,
\* ticker.dividends: a release that keeps the price history it has fetched
\* takes the splits from it and asks nothing more.
CallDividends(n) ==
  /\ calls[n].pc = "call" /\ calls[n].op = "get_dividends_and_splits"
  /\ LET dividends == Actions(calls[n].args.symbol, market)
     IN IF ~dividends.ok THEN ReturnCaught(n, dividends, <<>>, <<"raised">>)
        ELSE IF market.cached
        THEN ReturnCaught(n, get_dividends_and_splits(calls[n].args.symbol,
                                                      dividends.val, dividends.val),
                          [dividends |-> dividends.val], <<"answered">>)
        ELSE Wait(n, "splits", [dividends |-> dividends.val], <<"answered">>)

\* get_dividends_and_splits from its second request, ticker.splits, on.
ReadSplits(n) ==
  /\ calls[n].pc = "splits" /\ calls[n].op = "get_dividends_and_splits"
  /\ LET splits == Actions(calls[n].args.symbol, market)
     IN IF ~splits.ok
        THEN ReturnCaught(n, splits, calls[n].local, Append(calls[n].source, "raised"))
        ELSE ReturnCaught(n, get_dividends_and_splits(calls[n].args.symbol,
                                                      calls[n].local.dividends,
                                                      splits.val),
                          calls[n].local, Append(calls[n].source, "answered"))

CallRecommendations(n) ==
  /\ calls[n].pc = "call" /\ calls[n].op = "get_recommendations"
  /\ ReturnCaught(n, get_recommendations(calls[n].args.symbol, market), <<>>,
                  <<Outcome(LookupFails(calls[n].args.symbol, market))>>)

CallSearch(n) ==
  /\ calls[n].pc = "call" /\ calls[n].op = "search_symbols"
  /\ ReturnCaught(n, search_symbols(calls[n].args.query, calls[n].args.max_results,
                                    market),
                  <<>>, <<Outcome(market.down)>>)

CallCalendar(n) ==
  /\ calls[n].pc = "call" /\ calls[n].op = "get_earnings_calendar"
  /\ ReturnCaught(n, get_earnings_calendar(calls[n].args.symbol, market), <<>>,
                  <<Outcome(LookupFails(calls[n].args.symbol, market))>>)

\* The steps of the invocations interleave freely with each other and with
\* the changes of the source.
NextMarket ==
  \/ SourceChanges
  \/ \E n \in 1..MaxCalls :
       \/ CallHistory(n)
       \/ CallInfo(n)
       \/ CallQuotes(n)
       \/ NextQuote(n)
       \/ CallDownload(n)
       \/ CallFinancials(n)
       \/ ReadYearly(n)
       \/ CallDividends(n)
       \/ ReadSplits(n)
       \/ CallRecommendations(n)
       \/ CallSearch(n)
       \/ CallCalendar(n)

SpecMarket == InitMarket /\ [][NextMarket]_vars

(***************************************************************************)
(* Vocabulary of the properties.                                           *)
(***************************************************************************)
Done == pc = "done"

\* Element at Python index i.
At(s, i) == s[i + 1]

Idx(s) == 0..(Len(s) - 1)

Defined(x) == ~IsNaN(x)

RECURSIVE SumInts(_, _, _)
SumInts(list, lo, hi) ==
  IF hi < lo THEN 0 ELSE list[hi + 1] + SumInts(list, lo, hi - 1)

StrictlyIncreasing(list) == \A i \in 1..(Len(list) - 1) : list[i] < list[i + 1]

StrictlyDecreasing(list) == \A i \in 1..(Len(list) - 1) : list[i] > list[i + 1]

Constant(list) == \A i, j \in 1..Len(list) : list[i] = list[j]

SingleSeriesOps ==
  {"simple_moving_average", "exponential_moving_average",
   "double_exponential_moving_average", "triple_exponential_moving_average",
   "momentum", "relative_strength_index", "macd", "bollinger_bands",
   "rate_of_change", "stochastic_rsi", "kaufman_adaptive_moving_average",
   "standard_deviation", "percentage_price_oscillator", "trix"}

PatternOps ==
  {"doji_pattern", "engulfing_pattern", "hammer_pattern", "shooting_star_pattern",
   "morning_star_pattern", "evening_star_pattern", "harami_pattern"}

\* The input series of the call, and the sequences it returned.
InputSeries ==
  CASE op \in SingleSeriesOps -> <<args.prices>>
    [] op = "on_balance_volume" -> <<args.close_prices, args.volume>>
    [] op \in {"average_true_range", "stochastic_oscillator",
                "williams_percent_r", "normalized_average_true_range",
                "commodity_channel_index", "average_directional_index"} ->
         <<args.high_prices, args.low_prices, args.close_prices>>
    [] op \in {"accumulation_distribution_line", "money_flow_index",
                "chaikin_ad_oscillator"} ->
         <<args.high_prices, args.low_prices, args.close_prices, args.volume>>
    [] op = "parabolic_sar" -> <<args.high_prices, args.low_prices>>
    [] op \in PatternOps ->
         <<args.open_prices, args.high_prices, args.low_prices, args.close_prices>>
    [] OTHER -> <<>>

ReturnedSeries ==
  CASE op = "macd" -> {result.val.macd, result.val.signal, result.val.histogram}
    [] op = "bollinger_bands" ->
         {result.val.upper, result.val.middle, result.val.lower}
    [] op = "stochastic_oscillator" -> {result.val.slowk, result.val.slowd}
    [] op = "stochastic_rsi" -> {result.val.fastk, result.val.fastd}
    [] OTHER -> {result.val}

\* The timeperiod-like parameters of the call.
PeriodArgs ==
  CASE op = "macd" -> {args.fastperiod, args.slowperiod, args.signalperiod}
    [] op \in {"on_balance_volume", "parabolic_sar",
                "accumulation_distribution_line"} \cup PatternOps -> {}
    [] op = "stochastic_oscillator" ->
         {args.fastk_period, args.slowk_period, args.slowd_period}
    [] op = "stochastic_rsi" ->
         {args.timeperiod, args.fastk_period, args.fastd_period}
    [] op \in {"chaikin_ad_oscillator", "percentage_price_oscillator"} ->
         {args.fastperiod, args.slowperiod}
    [] OTHER -> {args.timeperiod}

(***************************************************************************)
(* C1: simple_moving_average raises (ValueError, no list) whenever         *)
(* len(prices) < timeperiod, and returns a list whenever                   *)
(* len(prices) >= timeperiod and timeperiod is a period TA-Lib accepts     *)
(* (2..100000).                                                            *)
(***************************************************************************)
C1_SmaLengthCheck ==
  (Done /\ op = "simple_moving_average") =>
    /\ Len(args.prices) < args.timeperiod =>
         (~result.ok /\ result.err = "ValueError" /\ result.val = <<>>)
    /\ (Len(args.prices) >= args.timeperiod /\ ValidPeriod(args.timeperiod, 2)) =>
         result.ok

C1_Witness ==
  /\ Done /\ op = "simple_moving_average"
  /\ Len(args.prices) = 2 /\ args.timeperiod = 3
  /\ result.err = "ValueError"

(***************************************************************************)
(* C2: every entry point with a timeperiod-like parameter raises when that *)
(* parameter exceeds the length of the series it is given.                 *)
(***************************************************************************)
C2_PeriodBeyondDataRaises ==
  (Done /\ \E q \in PeriodArgs : q > Len(InputSeries[1])) => ~result.ok

(***************************************************************************)
(* C3: every entry point with several input series raises, and returns no  *)
(* list, whenever the series do not all have the same length.              *)
(***************************************************************************)
C3_LengthMismatchRaises ==
  (Done /\ ~SameLength(InputSeries)) => (~result.ok /\ result.val = <<>>)

C3_Witness ==
  /\ Done /\ op = "on_balance_volume"
  /\ Len(args.close_prices) = 3 /\ Len(args.volume) = 2
  /\ result.err = "input array lengths are different"

(***************************************************************************)
(* C4: every sequence a successful call returns has the length of the      *)
(* input series; simple_moving_average is undefined (NaN) at every index   *)
(* i < timeperiod-1 and is the arithmetic mean of                          *)
(* prices[i-timeperiod+1..i] at every index i >= timeperiod-1.             *)
(***************************************************************************)
C4_LengthAndSmaValues ==
  (Done /\ result.ok) =>
    /\ \A out \in ReturnedSeries : Len(out) = Len(InputSeries[1])
    /\ op = "simple_moving_average" =>
         \A i \in Idx(result.val) :
           IF i < args.timeperiod - 1
           THEN IsNaN(At(result.val, i))
           ELSE At(result.val, i)
                  = Rat(SumInts(args.prices, i - args.timeperiod + 1, i),
                        args.timeperiod)

C4_Witness ==
  /\ Done /\ op = "simple_moving_average" /\ result.ok
  /\ args.prices = <<0, 1, 2, 2>> /\ args.timeperiod = 3
  /\ result.val = <<NaN, NaN, R(1), Rat(5, 3)>>

(***************************************************************************)
(* C5: exponential_moving_average (on a series at least as long as the     *)
(* period) is undefined before index period-1, equals                      *)
(* simple_moving_average at index period-1, and at every later index i is  *)
(* value[i]*k + ema[i-1]*(1-k) with k = 2/(period+1).                      *)
(***************************************************************************)
C5_EmaSeedAndRecurrence ==
  (Done /\ op = "exponential_moving_average" /\ result.ok
        /\ Len(args.prices) >= args.timeperiod) =>
    LET k == Rat(2, args.timeperiod + 1)
        sma == simple_moving_average(args.prices, args.timeperiod).val
    IN \A i \in Idx(result.val) :
         /\ i < args.timeperiod - 1 => IsNaN(At(result.val, i))
         /\ i = args.timeperiod - 1 =>
              (Defined(At(result.val, i)) /\ At(result.val, i) = At(sma, i))
         /\ i > args.timeperiod - 1 =>
              At(result.val, i)
                = RAdd(RMul(R(At(args.prices, i)), k),
                       RMul(At(result.val, i - 1), RSub(R(1), k)))

C5_Witness ==
  /\ Done /\ op = "exponential_moving_average" /\ result.ok
  /\ args.prices = <<1, 2, 0, 2>> /\ args.timeperiod = 2
  /\ At(result.val, 1) = Rat(3, 2) /\ At(result.val, 3) = Rat(3, 2)

(***************************************************************************)
(* C6: on a constant series of value v, every defined output of            *)
(* simple_moving_average, exponential_moving_average,                      *)
(* double_exponential_moving_average and triple_exponential_moving_average *)
(* is v.                                                                   *)
(***************************************************************************)
AverageOps ==
  {"simple_moving_average", "exponential_moving_average",
   "double_exponential_moving_average", "triple_exponential_moving_average"}

C6_ConstantSeries ==
  (Done /\ op \in AverageOps /\ result.ok /\ Constant(args.prices)) =>
    \A i \in Idx(result.val) :
      Defined(At(result.val, i)) => At(result.val, i) = R(At(args.prices, 0))

C6_Witness ==
  /\ Done /\ op = "triple_exponential_moving_average" /\ result.ok
  /\ args.prices = <<2, 2, 2, 2>> /\ args.timeperiod = 2
  /\ At(result.val, 3) = R(2)

(***************************************************************************)
(* C7 as stated: for all nbdevup/nbdevdn the entry point accepts, at every *)
(* defined index upper >= middle >= lower, and upper-middle = middle-lower *)
(* when nbdevup = nbdevdn.                                                 *)
(***************************************************************************)
BandsOrdered(i) ==
  /\ SLe(At(result.val.middle, i), At(result.val.upper, i))
  /\ SLe(At(result.val.lower, i), At(result.val.middle, i))

BandsSymmetric(i) ==
  SSub(At(result.val.upper, i), At(result.val.middle, i))
    = SSub(At(result.val.middle, i), At(result.val.lower, i))

BandsDefined(i) == i >= args.timeperiod - 1

C7_BandsOrderedForAllDeviations ==
  (Done /\ op = "bollinger_bands" /\ result.ok) =>
    \A i \in Idx(result.val.middle) :
      BandsDefined(i) =>
        (BandsOrdered(i) /\ (args.nbdevup = args.nbdevdn => BandsSymmetric(i)))

(***************************************************************************)
(* C7 amended: at every defined index, upper >= middle >= lower when       *)
(* nbdevup >= 0 and nbdevdn >= 0, and upper-middle = middle-lower when     *)
(* nbdevup = nbdevdn (of either sign).                                     *)
(***************************************************************************)
C7_BandsOrderedForNonNegativeDeviations ==
  (Done /\ op = "bollinger_bands" /\ result.ok) =>
    \A i \in Idx(result.val.middle) :
      BandsDefined(i) =>
        /\ (args.nbdevup >= 0 /\ args.nbdevdn >= 0) => BandsOrdered(i)
        /\ args.nbdevup = args.nbdevdn => BandsSymmetric(i)

C7_Witness ==
  /\ Done /\ op = "bollinger_bands" /\ result.ok
  /\ args.prices = <<0, 2, 1>> /\ args.timeperiod = 2
  /\ args.nbdevup = 2 /\ args.nbdevdn = 2
  /\ At(result.val.upper, 1) = R(3) /\ At(result.val.lower, 1) = R(-1)

(***************************************************************************)
(* C8: every defined output of relative_strength_index lies in [0, 100];   *)
(* on a strictly increasing series every defined output is 100, on a       *)
(* strictly decreasing series every defined output is 0, and an output     *)
(* whose average loss is zero is 100 (no division error).  Violated: when  *)
(* the average gain and the average loss are both within TA_EPSILON of     *)
(* zero (no price has changed so far) the routine returns 0, not 100.      *)
(***************************************************************************)
\* No price of prices[0..i] is below the one before it: the average loss
\* at index i is zero.
NoLossUpTo(i) == \A j \in 1..i : At(args.prices, j - 1) <= At(args.prices, j)

C8_RsiRangeAndExtremes ==
  (Done /\ op = "relative_strength_index" /\ result.ok) =>
    \A i \in Idx(result.val) :
      Defined(At(result.val, i)) =>
        /\ RLe(R(0), At(result.val, i)) /\ RLe(At(result.val, i), R(100))
        /\ StrictlyIncreasing(args.prices) => At(result.val, i) = R(100)
        /\ StrictlyDecreasing(args.prices) => At(result.val, i) = R(0)
        /\ NoLossUpTo(i) => At(result.val, i) = R(100)

\* The part the routine keeps: the range, 100 on a strictly increasing
\* series and 0 on a strictly decreasing one, for prices whose changes are
\* not within TA_EPSILON of zero.
C8_RsiRange ==
  (Done /\ op = "relative_strength_index" /\ result.ok) =>
    \A i \in Idx(result.val) :
      i >= args.timeperiod =>
        /\ RLe(R(0), At(result.val, i)) /\ RLe(At(result.val, i), R(100))
        /\ StrictlyIncreasing(args.prices) => At(result.val, i) = R(100)
        /\ StrictlyDecreasing(args.prices) => At(result.val, i) = R(0)

(***************************************************************************)
(* C9: at every index where macd returns defined outputs,                  *)
(* histogram = macd - signal, where macd is EMA(fast) - EMA(slow) of the   *)
(* prices and signal is the EMA of that line.  Violated: the routine       *)
(* starts the fast EMA where the slow one starts, seeded on the fastperiod *)
(* values that end there, so the line it returns is not the difference of  *)
(* the two EMAs of the prices (and it swaps the periods when the slow one  *)
(* is the shorter).                                                        *)
(***************************************************************************)
MacdLookback ==
  (Max(args.fastperiod, args.slowperiod) - 1) + (args.signalperiod - 1)

\* EMA(period) of the prices, as exponential_moving_average returns it.
EmaOfPrices(period) == exponential_moving_average(args.prices, period).val

\* EMA(fast) - EMA(slow) of the prices at every index.
EmaDifference ==
  [j \in 1..Len(args.prices) |->
     RSub(EmaOfPrices(args.fastperiod)[j], EmaOfPrices(args.slowperiod)[j])]

C9_MacdIsEmaDifference ==
  (Done /\ op = "macd" /\ result.ok) =>
    LET k == Rat(2, args.signalperiod + 1)
    IN \A i \in Idx(result.val.histogram) :
         /\ i >= MacdLookback =>
              /\ Defined(At(result.val.histogram, i))
              /\ At(result.val.histogram, i)
                   = RSub(At(result.val.macd, i), At(result.val.signal, i))
              /\ At(result.val.macd, i) = At(EmaDifference, i)
         /\ i = MacdLookback =>
              At(result.val.signal, i)
                = RDiv(RunSum(EmaDifference, i + 2 - args.signalperiod, i + 1),
                       R(args.signalperiod))
         /\ i > MacdLookback =>
              At(result.val.signal, i)
                = RAdd(RMul(At(result.val.macd, i), k),
                       RMul(At(result.val.signal, i - 1), RSub(R(1), k)))

\* The part the routine keeps: histogram = macd - signal on the arrays it
\* returns, and the signal line follows the EMA recurrence over the
\* returned macd line.
C9_HistogramIsMacdMinusSignal ==
  (Done /\ op = "macd" /\ result.ok) =>
    LET k == Rat(2, args.signalperiod + 1)
    IN \A i \in Idx(result.val.histogram) :
         /\ i >= MacdLookback =>
              /\ Defined(At(result.val.histogram, i))
              /\ At(result.val.histogram, i)
                   = RSub(At(result.val.macd, i), At(result.val.signal, i))
         /\ i > MacdLookback =>
              At(result.val.signal, i)
                = RAdd(RMul(At(result.val.macd, i), k),
                       RMul(At(result.val.signal, i - 1), RSub(R(1), k)))

(***************************************************************************)
(* C10 as stated: on a strictly increasing close series, for all volumes   *)
(* the entry point accepts, on_balance_volume is non-decreasing and at     *)
(* every index i is volume[0] + ... + volume[i].                           *)
(***************************************************************************)
ObvNonDecreasing ==
  \A i \in Idx(result.val) : i > 0 => RLe(At(result.val, i - 1), At(result.val, i))

ObvCumulative ==
  \A i \in Idx(result.val) : At(result.val, i) = R(SumInts(args.volume, 0, i))

C10_ObvRisingCloseAnyVolume ==
  (Done /\ op = "on_balance_volume" /\ result.ok
        /\ StrictlyIncreasing(args.close_prices)) =>
    (ObvNonDecreasing /\ ObvCumulative)

(***************************************************************************)
(* C10 amended: on a strictly increasing close series on_balance_volume    *)
(* is volume[0] + ... + volume[i] at every index i, for all volumes; it is *)
(* non-decreasing when no volume after the first is negative.              *)
(***************************************************************************)
C10_ObvRisingCloseNonNegativeVolume ==
  (Done /\ op = "on_balance_volume" /\ result.ok
        /\ StrictlyIncreasing(args.close_prices)) =>
    /\ ObvCumulative
    /\ (\A i \in Idx(args.volume) : i > 0 => At(args.volume, i) >= 0)
         => ObvNonDecreasing

C10_Witness ==
  /\ Done /\ op = "on_balance_volume" /\ result.ok
  /\ args.close_prices = <<0, 1, 2>> /\ args.volume = <<1, 2, 1>>
  /\ result.val = <<R(1), R(3), R(4)>>

(***************************************************************************)
(* C11: every defined output of stochastic_oscillator lies in [0, 100] and *)
(* every defined output of williams_percent_r lies in [-100, 0].  As the   *)
(* claim states it, for every accepted input, closes outside their bar's   *)
(* high-low range included: violated.  It holds for the inputs whose bars  *)
(* satisfy low <= close <= high, windows of zero range included.           *)
(***************************************************************************)
OscillatorRange ==
  CASE op = "stochastic_oscillator" -> [lo |-> R(0), hi |-> R(100)]
    [] op = "williams_percent_r" -> [lo |-> R(-100), hi |-> R(0)]
    [] OTHER -> [lo |-> R(0), hi |-> R(0)]

OutputsInRange ==
  \A s \in ReturnedSeries : \A i \in Idx(s) :
    Defined(At(s, i)) =>
      RLe(OscillatorRange.lo, At(s, i)) /\ RLe(At(s, i), OscillatorRange.hi)

CloseWithinBars ==
  \A i \in Idx(args.close_prices) :
    /\ At(args.low_prices, i) <= At(args.close_prices, i)
    /\ At(args.close_prices, i) <= At(args.high_prices, i)

SarTraceOfCall ==
  SarTrace(NpArray(args.high_prices), NpArray(args.low_prices),
           args.acceleration, args.maximum)

\* The trend reverses at Python index i >= 1.
Reverses(i) == SarTraceOfCall[i].switched

StrictlyInsideBar(x, j) ==
  RLt(R(At(args.low_prices, j)), x) /\ RLt(x, R(At(args.high_prices, j)))

C12_ReversalOutsideBothBars ==
  (Done /\ result.ok /\ op = "parabolic_sar") =>
    \A i \in 1..(Len(result.val) - 1) :
      Reverses(i) => /\ ~StrictlyInsideBar(At(result.val, i), i)
                     /\ ~StrictlyInsideBar(At(result.val, i), i - 1)

\* The part the routine keeps: the rule at every reversal from index 2 on,
\* and at index 1 for the bar itself.
C12_ReversalOutsideBothBarsAfterFirst ==
  (Done /\ result.ok /\ op = "parabolic_sar") =>
    \A i \in 1..(Len(result.val) - 1) :
      Reverses(i) => /\ ~StrictlyInsideBar(At(result.val, i), i)
                     /\ i >= 2 => ~StrictlyInsideBar(At(result.val, i), i - 1)

(***************************************************************************)
(* C13: for a perfectly flat OHLC series (open = high = low = close, the   *)
(* same on every bar) of any length, hammer_pattern, shooting_star_pattern *)
(* and engulfing_pattern return 0 at every bar, and doji_pattern returns a *)
(* non-zero signal at every bar.  As stated, the earliest bars included:   *)
(* violated.  It holds with the Doji signal (100) at every bar from index  *)
(* 10 on and 0 at the ten bars before.                                     *)
(***************************************************************************)
FlatSeries ==
  /\ op \in PatternOps
  /\ args.open_prices = args.high_prices /\ args.high_prices = args.low_prices
  /\ args.low_prices = args.close_prices
  /\ Constant(args.close_prices)

NoSignalOnFlat ==
  op \in {"hammer_pattern", "shooting_star_pattern", "engulfing_pattern"} =>
    \A i \in Idx(result.val) : At(result.val, i) = 0

C13_FlatSeriesDojiEveryBar ==
  (Done /\ result.ok /\ FlatSeries) =>
    /\ NoSignalOnFlat
    /\ op = "doji_pattern" => \A i \in Idx(result.val) : At(result.val, i) # 0

C13_FlatSeriesDojiAfterTenBars ==
  (Done /\ result.ok /\ FlatSeries) =>
    /\ NoSignalOnFlat
    /\ op = "doji_pattern" =>
         \A i \in Idx(result.val) : At(result.val, i) = IF i >= 10 THEN 100 ELSE 0

\* A flat series long enough for a Doji signal.
C13_Witness ==
  /\ Done /\ result.ok /\ FlatSeries /\ op = "doji_pattern"
  /\ Len(result.val) >= 12
  /\ At(result.val, 9) = 0 /\ At(result.val, 10) = 100 /\ At(result.val, 11) = 100

(***************************************************************************)
(* C14: every element of every candlestick recognizer's result is one of   *)
(* -100, 0, 100, and it is 0 at every index with too little trailing       *)
(* history for the pattern's window.  Violated: with a TA-Lib library from *)
(* 0.6 on, engulfing_pattern and harami_pattern return 80 or -80 when the  *)
(* two real bodies match on one end.                                       *)
(***************************************************************************)
PatternLookback ==
  CASE op = "doji_pattern" -> CDLDOJI_Lookback
    [] op = "engulfing_pattern" -> CDLENGULFING_Lookback
    [] op = "hammer_pattern" -> CDLHAMMER_Lookback
    [] op = "shooting_star_pattern" -> CDLSHOOTINGSTAR_Lookback
    [] op = "harami_pattern" -> CDLHARAMI_Lookback
    [] OTHER -> CDLSTAR_Lookback

C14_SignalsThreeValuedZeroInWarmUp ==
  (Done /\ result.ok /\ op \in PatternOps) =>
    \A i \in Idx(result.val) :
      /\ At(result.val, i) \in {-100, 0, 100}
      /\ i < PatternLookback => At(result.val, i) = 0

(***************************************************************************)
(* C15: simple_moving_average([10,10,10,10,10,10,10,10,10,10,11],          *)
(* timeperiod=5) returns an 11-element result whose last value is          *)
(* (10+10+10+10+11)/5 = 10.2.                                              *)
(***************************************************************************)
IsSmaScenario == \E rq \in SmaScenario : op = rq.op /\ args = rq.args

C15_SmaLastStepUp ==
  (Done /\ IsSmaScenario) =>
    /\ result.ok
    /\ Len(result.val) = 11
    /\ At(result.val, 10) = Rat(102, 10)

C15_Witness ==
  /\ Done /\ IsSmaScenario /\ result.ok
  /\ result.val = <<NaN, NaN, NaN, NaN, R(10), R(10), R(10), R(10), R(10), R(10),
                    Rat(51, 5)>>

(***************************************************************************)
(* C16: relative_strength_index([1,2,...,14], timeperiod=14) returns a     *)
(* result whose value at the last index (13) is defined and equals 100.    *)
(* As stated: violated, the 14-bar series has only 13 changes and every    *)
(* value is undefined.  It holds one bar later: for [1,2,...,15] the value *)
(* at the last index (14) is defined and equals 100, and every value       *)
(* before it is undefined.                                                 *)
(***************************************************************************)
IsRsiScenario(n) ==
  /\ op = "relative_strength_index" /\ args.timeperiod = 14
  /\ args.prices = [i \in 1..n |-> i]

C16_RsiOfFourteenRisingBars ==
  (Done /\ IsRsiScenario(14)) =>
    /\ result.ok
    /\ Defined(At(result.val, 13)) /\ At(result.val, 13) = R(100)

C16_RsiOfFifteenRisingBars ==
  /\ (Done /\ IsRsiScenario(14)) =>
       /\ result.ok /\ Len(result.val) = 14
       /\ \A i \in 0..13 : IsNaN(At(result.val, i))
  /\ (Done /\ IsRsiScenario(15)) =>
       /\ result.ok /\ Len(result.val) = 15
       /\ \A i \in 0..13 : IsNaN(At(result.val, i))
       /\ Defined(At(result.val, 14)) /\ At(result.val, 14) = R(100)

C16_Witness ==
  /\ Done /\ IsRsiScenario(15) /\ result.ok
  /\ At(result.val, 14) = R(100)

(***************************************************************************)
(* C17: every call either returns a complete result or fails with an       *)
(* error; on failure the caller receives the error raised inside the call, *)
(* unchanged, and no partial result.  As stated, the error is also logged  *)
(* on every failure: violated, nine entry points have no try block and log *)
(* nothing.  It holds with the logging limited to the entry points that    *)
(* have the try block.                                                     *)
(***************************************************************************)
\* The entry points whose body is wrapped in try / except-log-raise.
WrappedOps ==
  {"simple_moving_average", "double_exponential_moving_average",
   "triple_exponential_moving_average", "momentum", "parabolic_sar",
   "rate_of_change", "normalized_average_true_range",
   "accumulation_distribution_line", "money_flow_index", "stochastic_rsi",
   "average_directional_index", "kaufman_adaptive_moving_average",
   "standard_deviation", "chaikin_ad_oscillator", "percentage_price_oscillator",
   "trix"}
    \cup PatternOps

\* What the body of the called entry point returns or raises.
RaisedInside ==
  CASE op = "simple_moving_average" ->
         {simple_moving_average(args.prices, args.timeperiod)}
    [] op = "exponential_moving_average" ->
         {exponential_moving_average(args.prices, args.timeperiod)}
    [] op = "double_exponential_moving_average" ->
         {double_exponential_moving_average(args.prices, args.timeperiod)}
    [] op = "triple_exponential_moving_average" ->
         {triple_exponential_moving_average(args.prices, args.timeperiod)}
    [] op = "momentum" -> {momentum(args.prices, args.timeperiod)}
    [] op = "relative_strength_index" ->
         {relative_strength_index(args.prices, args.timeperiod)}
    [] op = "macd" ->
         {macd(args.prices, args.fastperiod, args.slowperiod, args.signalperiod)}
    [] op = "bollinger_bands" ->
         {bollinger_bands(args.prices, args.timeperiod, args.nbdevup, args.nbdevdn)}
    [] op = "on_balance_volume" ->
         {on_balance_volume(args.close_prices, args.volume)}
    [] op = "average_true_range" ->
         {average_true_range(args.high_prices, args.low_prices, args.close_prices,
                             args.timeperiod)}
    [] op = "stochastic_oscillator" ->
         {stochastic_oscillator(args.high_prices, args.low_prices, args.close_prices,
                                args.fastk_period, args.slowk_period,
                                args.slowd_period)}
    [] op = "williams_percent_r" ->
         {williams_percent_r(args.high_prices, args.low_prices, args.close_prices,
                             args.timeperiod)}
    [] op = "parabolic_sar" ->
         {parabolic_sar(args.high_prices, args.low_prices, args.acceleration,
                        args.maximum)}
    [] op = "rate_of_change" -> {rate_of_change(args.prices, args.timeperiod)}
    [] op = "normalized_average_true_range" ->
         {normalized_average_true_range(args.high_prices, args.low_prices,
                                        args.close_prices, args.timeperiod)}
    [] op = "accumulation_distribution_line" ->
         {accumulation_distribution_line(args.high_prices, args.low_prices,
                                         args.close_prices, args.volume)}
    [] op = "money_flow_index" ->
         {money_flow_index(args.high_prices, args.low_prices, args.close_prices,
                           args.volume, args.timeperiod)}
    [] op = "commodity_channel_index" ->
         {commodity_channel_index(args.high_prices, args.low_prices,
                                  args.close_prices, args.timeperiod)}
    [] op = "stochastic_rsi" ->
         {stochastic_rsi(args.prices, args.timeperiod, args.fastk_period,
                         args.fastd_period)}
    [] op = "average_directional_index" ->
         {average_directional_index(args.high_prices, args.low_prices,
                                    args.close_prices, args.timeperiod)}
    [] op = "kaufman_adaptive_moving_average" ->
         {kaufman_adaptive_moving_average(args.prices, args.timeperiod)}
    [] op = "standard_deviation" ->
         {standard_deviation(args.prices, args.timeperiod, args.nbdev)}
    [] op = "chaikin_ad_oscillator" ->
         {chaikin_ad_oscillator(args.high_prices, args.low_prices, args.close_prices,
                                args.volume, args.fastperiod, args.slowperiod)}
    [] op = "percentage_price_oscillator" ->
         {percentage_price_oscillator(args.prices, args.fastperiod, args.slowperiod)}
    [] op = "trix" -> {trix(args.prices, args.timeperiod)}
    [] op = "doji_pattern" ->
         {doji_pattern(args.open_prices, args.high_prices, args.low_prices,
                       args.close_prices)}
    [] op = "hammer_pattern" ->
         {hammer_pattern(args.open_prices, args.high_prices, args.low_prices,
                         args.close_prices)}
    [] op = "shooting_star_pattern" ->
         {shooting_star_pattern(args.open_prices, args.high_prices, args.low_prices,
                                args.close_prices)}
    [] op = "engulfing_pattern" ->
         {engulfing_pattern(args.open_prices, args.high_prices, args.low_prices,
                            args.close_prices, lib) : lib \in Libraries}
    [] op = "harami_pattern" ->
         {harami_pattern(args.open_prices, args.high_prices, args.low_prices,
                         args.close_prices, lib) : lib \in Libraries}
    [] op = "morning_star_pattern" ->
         {morning_star_pattern(args.open_prices, args.high_prices, args.low_prices,
                               args.close_prices, args.penetration)}
    [] OTHER ->
         {evening_star_pattern(args.open_prices, args.high_prices, args.low_prices,
                               args.close_prices, args.penetration)}

\* The empty input is the one case where the binding's version decides.
EmptyInput == \A i \in 1..Len(InputSeries) : Len(InputSeries[i]) = 0

ResultOrError ==
  /\ result \in RaisedInside \cup (IF EmptyInput THEN {Raise("inputs are all NaN")}
                                    ELSE {})
  /\ result.ok => \A out \in ReturnedSeries : Len(out) = Len(InputSeries[1])
  /\ ~result.ok => result.val = <<>> /\ result.err \notin {"none", "pending"}

C17_ErrorLoggedAndReraised ==
  Done => ResultOrError /\ (~result.ok => logged)

C17_ErrorReraisedLoggedWhereWrapped ==
  Done => ResultOrError /\ (logged <=> (~result.ok /\ op \in WrappedOps))

\* A wrapped entry point failing inside TA-Lib.
C17_Witness ==
  /\ Done /\ op = "momentum" /\ ~result.ok /\ logged
  /\ result.err = "TA_BAD_PARAM" /\ Len(args.prices) > 0

(***************************************************************************)
(* C18: under any interleaving of any number of invocations, each          *)
(* invocation returns exactly the result it returns when run alone with    *)
(* the same arguments: no invocation reads or writes an array of another,  *)
(* and the same arguments always give the same result.                     *)
(***************************************************************************)
\* The result of the call run alone.
Alone(c) ==
  IF c.op = "simple_moving_average"
  THEN simple_moving_average(c.args.prices, c.args.timeperiod)
  ELSE exponential_moving_average(c.args.prices, c.args.timeperiod)

C18_InvocationsIsolated ==
  \A i \in DOMAIN calls :
    /\ calls[i].pc = "done" => calls[i].result = Alone(calls[i])
    /\ calls[i].pc = "converted" =>
         /\ heap[calls[i].close] = NpArray(calls[i].args.prices)
         /\ \A j \in DOMAIN calls \ {i} :
              calls[j].pc = "converted" => calls[j].close # calls[i].close
    /\ \A j \in DOMAIN calls :
         (calls[j].pc = "done" /\ calls[i].pc = "done" /\ calls[j].op = calls[i].op
            /\ calls[j].args = calls[i].args)
           => calls[j].result = calls[i].result

\* Invocation 1 converted and computed while invocation 2, with other
\* prices, was between its conversion and its computation.
C18_Witness ==
  /\ Len(calls) >= 2
  /\ calls[1].pc = "done" /\ calls[1].result.ok
  /\ calls[2].pc = "converted"
  /\ calls[2].close = 1 /\ calls[1].close = 2
  /\ calls[1].args.prices # calls[2].args.prices

(***************************************************************************)
(* C19: no call modifies any of the input sequences passed to it: after    *)
(* the call returns or fails, every input list has the same length and the *)
(* same elements as before the call.                                       *)
(***************************************************************************)
C19_InputsUnmodified == [][args' = args]_vars

\* A call on non-empty lists that failed, and so ran to its end.
C19_Witness ==
  /\ Done /\ ~result.ok
  /\ Len(InputSeries) > 0 /\ \A i \in 1..Len(InputSeries) : Len(InputSeries[i]) > 0

(***************************************************************************)
(* C20: every entry point with a timeperiod fails with an invalid-         *)
(* parameter error, and returns no result, when timeperiod <= 0, for every *)
(* input series, the empty one included.  As stated: violated, the         *)
(* timeperiod -2147483648 is TA-Lib's "default" marker and the call        *)
(* returns a result.  For every other timeperiod <= 0 the call fails and   *)
(* returns nothing, with TA-Lib's bad-parameter error (on the empty        *)
(* series, with bindings that reject empty input first, with their error). *)
(***************************************************************************)
C20_NonPositivePeriodFails ==
  (Done /\ \E q \in PeriodArgs : q <= 0) =>
    /\ ~result.ok /\ result.val = <<>>
    /\ result.err = "TA_BAD_PARAM"

C20_NonPositivePeriodFailsUnlessDefault ==
  (Done /\ \E q \in PeriodArgs : q <= 0) =>
    IF \A q \in PeriodArgs : q <= 0 => q = TA_INTEGER_DEFAULT
    THEN result.ok \/ (EmptyInput /\ result.err = "inputs are all NaN")
    ELSE /\ ~result.ok /\ result.val = <<>>
         /\ \/ result.err = "TA_BAD_PARAM"
            \/ EmptyInput /\ result.err = "inputs are all NaN"

\* A zero period on a series that is longer than it.
C20_Witness ==
  /\ Done /\ op = "simple_moving_average" /\ args.timeperiod = 0
  /\ Len(args.prices) = 3
  /\ ~result.ok /\ result.err = "TA_BAD_PARAM" /\ logged

(***************************************************************************)
(* C22: on_balance_volume follows the running-sum rule on every close and  *)
(* volume input it accepts: obv[0] = volume[0], and for every i > 0        *)
(* obv[i] is obv[i-1] + volume[i] where the close rose, obv[i-1] -         *)
(* volume[i] where it fell, and obv[i-1] where it is unchanged.            *)
(***************************************************************************)
C22_ObvRunningSum ==
  (Done /\ op = "on_balance_volume" /\ result.ok) =>
    /\ Len(result.val) = Len(args.close_prices)
    /\ \A i \in Idx(result.val) :
         LET obv == At(result.val, i)
             v == R(At(args.volume, i))
         IN IF i = 0 THEN obv = v
            ELSE LET prev == At(result.val, i - 1)
                     c0 == At(args.close_prices, i - 1)
                     c1 == At(args.close_prices, i)
                 IN /\ c1 > c0 => obv = RAdd(prev, v)
                    /\ c1 < c0 => obv = RSub(prev, v)
                    /\ c1 = c0 => obv = prev

\* A call whose close falls and then stays, with non-zero volumes.
C22_Witness ==
  /\ Done /\ op = "on_balance_volume" /\ result.ok
  /\ args.close_prices = <<2, 1, 1>> /\ args.volume = <<1, 2, 1>>
  /\ result.val = <<R(1), R(-1), R(-1)>>

(***************************************************************************)
(* C27: during a parabolic_sar computation the acceleration factor starts  *)
(* at acceleration, grows by acceleration only on bars that set a new      *)
(* extreme point in the direction of the trend, never exceeds maximum, and *)
(* is reset to acceleration at every reversal.  As stated, for every       *)
(* accepted acceleration: violated when acceleration is above maximum,     *)
(* where the factor starts at, and is reset to, maximum.  It holds with    *)
(* the step min(acceleration, maximum), the growth being cut at maximum.   *)
(***************************************************************************)
\* Trend, extreme point and factor before output bar k of the trace, the
\* factor of the first bar being start.
SarBefore(k, start) ==
  IF k > 1 THEN SarTraceOfCall[k - 1]
  ELSE LET isLong == SarInitialLong(NpArray(args.high_prices), NpArray(args.low_prices))
       IN [isLong |-> isLong, af |-> start,
           ep |-> R(IF isLong THEN At(args.high_prices, 1) ELSE At(args.low_prices, 1))]

\* Output bar k (Python index k) goes beyond the extreme point of its trend.
NewExtreme(k) ==
  LET b == SarBefore(k, NaN)
  IN IF b.isLong THEN RLt(b.ep, R(At(args.high_prices, k)))
     ELSE RLt(R(At(args.low_prices, k)), b.ep)

AccelerationRule(step) ==
  \A k \in 1..Len(SarTraceOfCall) :
    LET t == SarTraceOfCall[k]
        b == SarBefore(k, step)
    IN /\ RLe(t.af, args.maximum)
       /\ t.switched => t.af = step
       /\ (~t.switched /\ NewExtreme(k)) => t.af = RMin(RAdd(b.af, step), args.maximum)
       /\ (~t.switched /\ ~NewExtreme(k)) => t.af = b.af

C27_AccelerationFactorAnyAcceleration ==
  (Done /\ result.ok /\ op = "parabolic_sar") => AccelerationRule(args.acceleration)

C27_AccelerationFactorLoweredToMaximum ==
  (Done /\ result.ok /\ op = "parabolic_sar") =>
    AccelerationRule(RMin(args.acceleration, args.maximum))

\* A run in which the factor grew on a new extreme and was reset by a later
\* reversal.
C27_Witness ==
  /\ Done /\ result.ok /\ op = "parabolic_sar"
  /\ RLt(args.acceleration, args.maximum)
  /\ \E i, j \in 1..Len(SarTraceOfCall) :
       /\ i < j
       /\ ~SarTraceOfCall[i].switched /\ NewExtreme(i)
       /\ RLt(args.acceleration, SarTraceOfCall[i].af)
       /\ SarTraceOfCall[j].switched /\ SarTraceOfCall[j].af = args.acceleration

(***************************************************************************)
(* C28: the outputs of a multi-output indicator share one warm-up: in      *)
(* every bollinger_bands result upper, middle and lower, and in every macd *)
(* result macd, signal and histogram, have the same length and are at      *)
(* every index either all defined or all undefined.                        *)
(***************************************************************************)
C28_OutputsShareWarmUp ==
  (Done /\ result.ok /\ op \in {"bollinger_bands", "macd"}) =>
    \A s, t \in ReturnedSeries :
      /\ Len(s) = Len(t)
      /\ \A i \in Idx(s) : Defined(At(s, i)) <=> Defined(At(t, i))

\* Bands with an undefined first index and a defined second one.
C28_Witness ==
  /\ Done /\ result.ok /\ op = "bollinger_bands"
  /\ Len(args.prices) = 3 /\ args.timeperiod = 2
  /\ ~Defined(At(result.val.upper, 0)) /\ ~Defined(At(result.val.middle, 0))
  /\ ~Defined(At(result.val.lower, 0))
  /\ Defined(At(result.val.upper, 1)) /\ Defined(At(result.val.middle, 1))
  /\ Defined(At(result.val.lower, 1))

(***************************************************************************)
(* C29: engulfing_pattern signals at bar i only when the body of bar i     *)
(* contains the body of bar i-1 and the two bars have opposite colours: it *)
(* returns 100 only if bar i-1 is bearish (close < open) and bar i is      *)
(* bullish, -100 only if bar i-1 is bullish and bar i is bearish, and 0 at *)
(* index 0 and wherever the two bars have the same colour.  With bullish   *)
(* read as close > open: violated, a bar i-1 with close = open followed by *)
(* a bearish bar around it gives -100.  It holds with every bar that is    *)
(* not bearish (close >= open) counted as bullish.                         *)
(***************************************************************************)
Bearish(i) == At(args.close_prices, i) < At(args.open_prices, i)

Rising(i) == At(args.close_prices, i) > At(args.open_prices, i)

NotBearish(i) == At(args.close_prices, i) >= At(args.open_prices, i)

BodyContains(i, j) ==
  LET top(k) == Max(At(args.open_prices, k), At(args.close_prices, k))
      bottom(k) == Min(At(args.open_prices, k), At(args.close_prices, k))
  IN top(i) >= top(j) /\ bottom(i) <= bottom(j)

C29_EngulfingStrictColours ==
  (Done /\ result.ok /\ op = "engulfing_pattern") =>
    \A i \in Idx(result.val) :
      LET v == At(result.val, i)
      IN IF i = 0 THEN v = 0
         ELSE /\ v # 0 => BodyContains(i, i - 1)
              /\ v = 100 => (Bearish(i - 1) /\ Rising(i))
              /\ v = -100 => (Rising(i - 1) /\ Bearish(i))
              /\ (Bearish(i - 1) /\ Bearish(i)) => v = 0
              /\ (Rising(i - 1) /\ Rising(i)) => v = 0

C29_EngulfingFlatCountsAsBullish ==
  (Done /\ result.ok /\ op = "engulfing_pattern") =>
    \A i \in Idx(result.val) :
      LET v == At(result.val, i)
      IN IF i = 0 THEN v = 0
         ELSE /\ v # 0 => BodyContains(i, i - 1)
              /\ v > 0 => (Bearish(i - 1) /\ Rising(i))
              /\ v < 0 => (NotBearish(i - 1) /\ Bearish(i))
              /\ (Bearish(i - 1) /\ Bearish(i)) => v = 0
              /\ (NotBearish(i - 1) /\ NotBearish(i)) => v = 0

\* A bearish engulfing of a flat bar.
C29_Witness ==
  /\ Done /\ result.ok /\ op = "engulfing_pattern"
  /\ \E i \in Idx(result.val) :
       /\ i >= 2 /\ At(result.val, i) = -100 /\ Bearish(i)
       /\ At(args.close_prices, i - 1) = At(args.open_prices, i - 1)
       /\ BodyContains(i, i - 1)

(***************************************************************************)
(* C23: rate_of_change returns 100 * (close[i] - close[i-period]) /        *)
(* close[i-period] at every index i >= period; where close[i-period] is    *)
(* zero the call does not fail and the output at that index is a guarded   *)
(* value (0.0), not an infinity or the outcome of a division by zero.      *)
(***************************************************************************)
C23_RocValuesAndZeroGuard ==
  (Done /\ op = "rate_of_change" /\ ValidPeriod(args.timeperiod, 1)
        /\ Len(args.prices) > 0) =>
    /\ result.ok
    /\ Len(result.val) = Len(args.prices)
    /\ \A i \in Idx(result.val) :
         i >= args.timeperiod =>
           LET earlier == At(args.prices, i - args.timeperiod)
           IN IF earlier # 0
              THEN At(result.val, i)
                     = Rat(100 * (At(args.prices, i) - earlier), earlier)
              ELSE Defined(At(result.val, i)) /\ At(result.val, i) = R(0)

\* A call with a zero and a non-zero earlier value.
C23_Witness ==
  /\ Done /\ op = "rate_of_change" /\ result.ok
  /\ args.prices = <<0, 2, 1, 1>> /\ args.timeperiod = 1
  /\ result.val = <<NaN, R(0), R(-50), R(0)>>

(***************************************************************************)
(* C24: normalized_average_true_range equals 100 * ATR[i] / close[i] at    *)
(* every defined index with a non-zero close, ATR being the result of      *)
(* average_true_range on the same arguments; at every index where close[i] *)
(* is zero the output is the undefined value, and the call does not fail.  *)
(* Violated: where the close is zero the output is 0.0, and with           *)
(* timeperiod = 1 the output is the true range, not divided by the close.  *)
(***************************************************************************)
AtrOfCall ==
  average_true_range(args.high_prices, args.low_prices, args.close_prices,
                     args.timeperiod).val

C24_NatrNormalizedUndefinedAtZeroClose ==
  (Done /\ op = "normalized_average_true_range"
        /\ ValidPeriod(args.timeperiod, 1)
        /\ SameLength(InputSeries) /\ Len(args.close_prices) > 0) =>
    /\ result.ok
    /\ \A i \in Idx(result.val) :
         LET close == At(args.close_prices, i)
         IN IF close = 0 THEN ~Defined(At(result.val, i))
            ELSE i >= args.timeperiod =>
                   At(result.val, i)
                     = RDiv(RMul(R(100), At(AtrOfCall, i)), R(close))

(***************************************************************************)
(* C25: accumulation_distribution_line satisfies AD[i] = AD[i-1] +         *)
(* CLV[i] * volume[i] at every bar (AD before the first bar being 0), with *)
(* CLV[i] = ((close[i]-low[i]) - (high[i]-close[i])) / (high[i]-low[i]),   *)
(* and CLV[i] = 0, so AD[i] = AD[i-1], where high[i] = low[i].  As stated, *)
(* for every bar the entry point accepts: violated on a bar whose high is  *)
(* below its low, which adds nothing.  It holds with CLV[i] = 0 on every   *)
(* bar whose range high[i] - low[i] is not positive.                       *)
(***************************************************************************)
AdBefore(i) == IF i = 0 THEN R(0) ELSE At(result.val, i - 1)

AdStep(i) ==
  LET h == At(args.high_prices, i)
      l == At(args.low_prices, i)
      c == At(args.close_prices, i)
      clv == Rat((c - l) - (h - c), h - l)
  IN RAdd(AdBefore(i), RMul(clv, R(At(args.volume, i))))

C25_AdRecurrenceEveryBar ==
  (Done /\ result.ok /\ op = "accumulation_distribution_line") =>
    /\ Len(result.val) = Len(args.close_prices)
    /\ \A i \in Idx(result.val) :
         At(result.val, i)
           = IF At(args.high_prices, i) = At(args.low_prices, i) THEN AdBefore(i)
             ELSE AdStep(i)

C25_AdRecurrencePositiveRange ==
  (Done /\ result.ok /\ op = "accumulation_distribution_line") =>
    /\ Len(result.val) = Len(args.close_prices)
    /\ \A i \in Idx(result.val) :
         /\ Defined(At(result.val, i))
         /\ At(result.val, i)
              = IF At(args.high_prices, i) > At(args.low_prices, i) THEN AdStep(i)
                ELSE AdBefore(i)

\* A bar closing at its high, then a bar without range, then a bar closing
\* at its low.
C25_Witness ==
  /\ Done /\ result.ok /\ op = "accumulation_distribution_line"
  /\ args.high_prices = <<2, 1, 2>> /\ args.low_prices = <<0, 1, 0>>
  /\ args.close_prices = <<2, 1, 0>> /\ args.volume = <<2, 1, 1>>
  /\ result.val = <<R(2), R(2), R(1)>>

(***************************************************************************)
(* C26: every defined output of money_flow_index lies in [0, 100], and at  *)
(* every defined index whose trailing window has zero negative money flow  *)
(* the output is 100, windows whose positive flow is zero as well (flat    *)
(* typical price, zero volume) included.  Violated: the output is 0.0      *)
(* whenever the positive and negative flow of the window add up to less    *)
(* than 1, a window without any flow included.                             *)
(***************************************************************************)
TypicalPrice(i) ==
  Rat(At(args.high_prices, i) + At(args.low_prices, i) + At(args.close_prices, i), 3)

\* Money flow of bar i >= 1 when its typical price fell, 0 otherwise.
NegativeFlow(i) ==
  IF RLt(TypicalPrice(i), TypicalPrice(i - 1))
  THEN RMul(TypicalPrice(i), R(At(args.volume, i))) ELSE R(0)

\* Negative money flow of the timeperiod bars that end at bar i.
WindowNegativeFlow(i) ==
  RunSum([k \in 1..i |-> NegativeFlow(k)], i - args.timeperiod + 1, i)

C26_MfiRangeAndHundredWithoutNegativeFlow ==
  (Done /\ result.ok /\ op = "money_flow_index") =>
    \A i \in Idx(result.val) :
      Defined(At(result.val, i)) =>
        /\ RLe(R(0), At(result.val, i)) /\ RLe(At(result.val, i), R(100))
        /\ WindowNegativeFlow(i) = R(0) => At(result.val, i) = R(100)

(***************************************************************************)
(* C21: download_market_data called with two or more symbols, when the     *)
(* download yields data, returns a dictionary whose "data" mapping holds   *)
(* an entry with dates, open, high, low, close and volume for every        *)
(* requested symbol that has columns in the downloaded frame, with         *)
(* group_by "ticker" and with group_by "column".  Violated: the handler    *)
(* looks for the symbol on column level 1, which holds the price fields    *)
(* under group_by "ticker", so no entry is written; under group_by         *)
(* "column" the symbol is found and then selected on level 0, which holds  *)
(* the price fields, and the KeyError is returned as an error.             *)
(***************************************************************************)
\* The tickers that have columns in the frame invocation c downloaded.
DownloadedTickers(c) ==
  get_level_values(c.local.data.val, IF c.args.group_by = "ticker" THEN 0 ELSE 1)

EntryKeys == {"dates", "open", "high", "low", "close", "volume"}

C21_DownloadHoldsEverySymbolPresent ==
  \A n \in DOMAIN calls :
    (/\ calls[n].pc = "done" /\ calls[n].op = "download_market_data"
     /\ Len(calls[n].args.symbols) >= 2
     /\ calls[n].local.data.ok /\ ~Empty(calls[n].local.data.val)) =>
      /\ calls[n].result.ok
      /\ "data" \in DOMAIN calls[n].result.val
      /\ \A i \in DOMAIN calls[n].args.symbols :
           calls[n].args.symbols[i] \in DownloadedTickers(calls[n]) =>
             /\ calls[n].args.symbols[i] \in DOMAIN calls[n].result.val.data
             /\ DOMAIN calls[n].result.val.data[calls[n].args.symbols[i]] = EntryKeys

(***************************************************************************)
(* C30: no tool of the Yahoo Finance server raises to its caller; when the *)
(* data source fails on a request of a tool, the tool returns a dictionary *)
(* whose only key is "error"; get_multiple_quotes returns one entry per    *)
(* requested symbol, the entry of a symbol whose lookup failed has the     *)
(* only key "error", and the entry of a correctly spelled symbol whose     *)
(* lookup did not fail has no such key.  This holds whatever the source    *)
(* does between the requests and whatever runs beside the call.            *)
(***************************************************************************)
MarketTools ==
  {"get_stock_history", "get_stock_info", "get_multiple_quotes", "download_market_data",
   "get_financials", "get_dividends_and_splits", "get_recommendations", "search_symbols",
   "get_earnings_calendar"}

\* The source raised on a request of invocation c (get_multiple_quotes,
\* whose requests are made per symbol, apart).
SourceFails(c) ==
  c.op # "get_multiple_quotes" /\ \E k \in DOMAIN c.source : c.source[k] = "raised"

\* What happened in each pass of the loop of get_multiple_quotes, from the
\* requests the call has made: a pass for a symbol that is no key of
\* tickers.tickers asks nothing ("none"), nor does a pass for a symbol
\* whose info the Ticker holds from an answered pass ("held"); every other
\* pass makes the next request.
RECURSIVE PassLookups(_, _, _, _)
PassLookups(symbols, source, cached, passed) ==
  LET i == Len(passed) + 1
      made == Cardinality({j \in DOMAIN passed : passed[j] \in {"answered", "raised"}})
  IN IF i > Len(symbols) THEN passed
     ELSE PassLookups(symbols, source, cached,
            Append(passed,
                   IF symbols[i] # Upper(symbols[i]) THEN "none"
                   ELSE IF cached /\ \E j \in DOMAIN passed :
                                       symbols[j] = symbols[i] /\ passed[j] = "answered"
                   THEN "held"
                   ELSE source[made + 1]))

\* The pass of the loop of get_multiple_quotes that wrote the entry of
\* symbols[i]: the last one for that symbol.
LastPass(symbols, i) ==
  CHOOSE k \in DOMAIN symbols :
    symbols[k] = symbols[i] /\ \A j \in DOMAIN symbols : symbols[j] = symbols[i] => j <= k

C30_SourceFailuresReturnedAsErrors ==
  \A n \in DOMAIN calls :
    (calls[n].pc = "done" /\ calls[n].op \in MarketTools) =>
      /\ calls[n].result.ok
      /\ SourceFails(calls[n]) => DOMAIN calls[n].result.val = {"error"}
      /\ calls[n].op = "get_multiple_quotes" =>
           /\ DOMAIN calls[n].result.val =
                {calls[n].args.symbols[i] : i \in DOMAIN calls[n].args.symbols}
           /\ \A i \in DOMAIN calls[n].args.symbols :
                LET s == calls[n].args.symbols[i]
                    lookup == PassLookups(calls[n].args.symbols, calls[n].source,
                                          market.cached, <<>>)
                                [LastPass(calls[n].args.symbols, i)]
                IN /\ lookup = "raised" => DOMAIN calls[n].result.val[s] = {"error"}
                   /\ (lookup # "raised" /\ s = Upper(s)) =>
                        "error" \notin DOMAIN calls[n].result.val[s]

\* get_multiple_quotes was asked for two symbols, the source answered the
\* first request and raised on the second: a quote and an error entry;
\* the invocation beside it has returned the information it was asked for.
C30_Witness ==
  /\ calls[1].pc = "done" /\ calls[1].op = "get_multiple_quotes"
  /\ calls[1].args.symbols = <<"AAPL", "MSFT">>
  /\ calls[1].source = <<"answered", "raised">>
  /\ log = <<>>
  /\ calls[1].result.ok
  /\ DOMAIN calls[1].result.val["AAPL"] = DOMAIN QuoteKeys
  /\ calls[1].result.val["MSFT"] = [error |-> "HTTPError"]
  /\ calls[2].pc = "done" /\ calls[2].op = "get_stock_info"
  /\ "market_data" \in DOMAIN calls[2].result.val

====
